---- MODULE Spec2Model ----
(***************************************************************************)
(* Verification model of the Discord leaderboard sync (Turbostarow/v3):    *)
(* the message parser (parser.js), the state codec and reconciler          *)
(* (storage.js).                                                           *)
(*                                                                         *)
(* Text model.  A JavaScript string is a sequence of atoms.  An atom is a  *)
(* TLA+ string standing for either one whitespace character (SP) or a      *)
(* maximal run of non-whitespace characters of one lexical class (a word,  *)
(* a numeral, one punctuation mark, one of the state delimiters).  Two     *)
(* strings are equal iff their atom sequences are equal.                   *)
(*                                                                         *)
(* Time model.  An instant is an integer number of seconds since the       *)
(* epoch.  A JavaScript Date is a record [kind, t, s]: kind "Date" (a      *)
(* valid Date at instant t), "Invalid" (Invalid Date, time value NaN),     *)
(* "string" (not a Date but the string s), "absent" (undefined).           *)
(***************************************************************************)
EXTENDS Integers, Sequences, FiniteSets, TLC

VARIABLES
    msg,        \* parser: the content handed to parseMessage
    parsed,     \* parser: what parseMessage returned
    ppc,        \* parser: "input" before the call, "done" after it
    players,    \* storage: state.players, the mutable roster array
    state,      \* storage: the value decodeState returned last
    content,    \* storage: the persisted message content (text or null)
    origin,     \* storage: which operation wrote content
    saved,      \* storage: the roster that was encoded into content
    op,         \* storage: the last operation and how it ended
    data,       \* storage: the update handed to the last upsertPlayer
    prev,       \* storage: the roster before the last call that may change it
    gameType,   \* run: the game processGame is called for
    sorted,     \* run: what cfg.sortFn returned
    updates,    \* run: the batch of processGame, in arrival order
    cursor,     \* run: the position of the loop over updates
    deleted,    \* run: the positions of the source messages deleted
    rpc,        \* run: the step processGame is at
    inbox,      \* main: the messages fetched from the listening channel
    byGame,     \* main: the parsed updates of each game, with their messages
    stateMsgs,  \* main: the content of the state message of each game
    log,        \* main: what the run did, in order
    del,        \* deleteMessage: its retries, attempt, errors met and result
    rtc         \* relativeTime: the elapsed time handed in and the text returned

parserVars == <<msg, parsed, ppc>>
storageVars == <<players, state, content, origin, saved, op, data, prev>>
runVars == <<gameType, sorted, updates, cursor, deleted, rpc>>
auxVars == <<inbox, byGame, stateMsgs, log, del, rtc>>
vars == <<msg, parsed, ppc, players, state, content, origin, saved, op, data, prev,
          gameType, sorted, updates, cursor, deleted, rpc,
          inbox, byGame, stateMsgs, log, del, rtc>>

----------------------------------------------------------------------------
(* Strings *)

SP == " "

IsSpace(a) == a = SP

\* The letters-only atoms that have an upper-case letter, with their
\* lower-case form (String.prototype.toLowerCase, the regex flag i).
LowerTable ==
    [a \in {"LB_UPDATE_MR:", "LB_UPDATE_OW:", "LB_UPDATE_DL:", "LB_UPDATE_XX:",
            "Lb_Update_Mr:",
            "Turbo", "TURBO", "Alpha", "Star", "Duelist", "Tank", "Haze",
            "Bronze", "Silver", "Gold", "GOLD", "Platinum", "Diamond", "DIAMOND",
            "Master", "Grandmaster", "Celestial", "Eternity", "Champion",
            "One", "ONE", "Above", "ABOVE", "All", "ALL", "Top", "TOP",
            "Initiate", "Seeker", "Alchemist", "Arcanist", "Ritualist",
            "Emissary", "Archon", "ARCHON", "Oracle", "Phantom", "Ascendant",
            "Eternus", "Today", "Feb"} |->
        CASE a = "LB_UPDATE_MR:" -> "lb_update_mr:"
          [] a = "Lb_Update_Mr:" -> "lb_update_mr:"
          [] a = "LB_UPDATE_OW:" -> "lb_update_ow:"
          [] a = "LB_UPDATE_DL:" -> "lb_update_dl:"
          [] a = "LB_UPDATE_XX:" -> "lb_update_xx:"
          [] a = "Turbo" -> "turbo"  [] a = "TURBO" -> "turbo"
          [] a = "Alpha" -> "alpha"  [] a = "Star" -> "star"
          [] a = "Duelist" -> "duelist" [] a = "Tank" -> "tank"
          [] a = "Haze" -> "haze"
          [] a = "Bronze" -> "bronze" [] a = "Silver" -> "silver"
          [] a = "Gold" -> "gold" [] a = "GOLD" -> "gold"
          [] a = "Platinum" -> "platinum"
          [] a = "Diamond" -> "diamond" [] a = "DIAMOND" -> "diamond"
          [] a = "Master" -> "master" [] a = "Grandmaster" -> "grandmaster"
          [] a = "Celestial" -> "celestial" [] a = "Eternity" -> "eternity"
          [] a = "Champion" -> "champion"
          [] a = "One" -> "one" [] a = "ONE" -> "one"
          [] a = "Above" -> "above" [] a = "ABOVE" -> "above"
          [] a = "All" -> "all" [] a = "ALL" -> "all"
          [] a = "Top" -> "top" [] a = "TOP" -> "top"
          [] a = "Initiate" -> "initiate" [] a = "Seeker" -> "seeker"
          [] a = "Alchemist" -> "alchemist" [] a = "Arcanist" -> "arcanist"
          [] a = "Ritualist" -> "ritualist" [] a = "Emissary" -> "emissary"
          [] a = "Archon" -> "archon" [] a = "ARCHON" -> "archon"
          [] a = "Oracle" -> "oracle" [] a = "Phantom" -> "phantom"
          [] a = "Ascendant" -> "ascendant" [] a = "Eternus" -> "eternus"
          [] a = "Today" -> "today" [] a = "Feb" -> "feb"]

ToLowerAtom(a) == IF a \in DOMAIN LowerTable THEN LowerTable[a] ELSE a

toLowerCase(s) == [i \in 1..Len(s) |-> ToLowerAtom(s[i])]

\* The first index j >= i of s that holds no whitespace (Len(s)+1 if none):
\* where a greedy \s* or \s+ started at i stops.
SkipSpaces(s, i) ==
    IF \E j \in i..Len(s) : ~IsSpace(s[j])
    THEN CHOOSE j \in i..Len(s) :
            ~IsSpace(s[j]) /\ \A k \in i..(j-1) : IsSpace(s[k])
    ELSE Len(s) + 1

\* The first index j >= i of s that holds whitespace (Len(s)+1 if none):
\* where a greedy \S+ started at i stops.
SkipNonSpaces(s, i) ==
    IF \E j \in i..Len(s) : IsSpace(s[j])
    THEN CHOOSE j \in i..Len(s) :
            IsSpace(s[j]) /\ \A k \in i..(j-1) : ~IsSpace(s[k])
    ELSE Len(s) + 1

\* The last index of s that holds no whitespace (0 if none).
LastNonSpace(s) ==
    IF \E j \in 1..Len(s) : ~IsSpace(s[j])
    THEN CHOOSE j \in 1..Len(s) :
            ~IsSpace(s[j]) /\ \A k \in (j+1)..Len(s) : IsSpace(s[k])
    ELSE 0

\* String.prototype.trim
trim(s) == SubSeq(s, SkipSpaces(s, 1), LastNonSpace(s))

----------------------------------------------------------------------------
(* parser.js: rank vocabularies *)

MR_RANKS ==
    << <<"Bronze">>, <<"Silver">>, <<"Gold">>, <<"Platinum">>, <<"Diamond">>,
       <<"Grandmaster">>, <<"Celestial">>, <<"Eternity">>,
       <<"One", SP, "Above", SP, "All">> >>

OW_RANKS ==
    << <<"Bronze">>, <<"Silver">>, <<"Gold">>, <<"Platinum">>, <<"Diamond">>,
       <<"Master">>, <<"Grandmaster">>, <<"Champion">>, <<"Top", SP, "500">> >>

DL_RANKS ==
    << <<"Initiate">>, <<"Seeker">>, <<"Alchemist">>, <<"Arcanist">>,
       <<"Ritualist">>, <<"Emissary">>, <<"Archon">>, <<"Oracle">>,
       <<"Phantom">>, <<"Ascendant">>, <<"Eternus">> >>

Reverse(q) == [i \in 1..Len(q) |-> q[Len(q) + 1 - i]]

mrRankAlt == Reverse(MR_RANKS)
owRankAlt == Reverse(OW_RANKS)
dlRankAlt == Reverse(DL_RANKS)

----------------------------------------------------------------------------
(* Numerals: the atoms \d+ matches, and parseInt(_, 10) of them *)

NumSet == (0..14) \cup {47, 50, 200, 250, 500, 1200, 2026, 3200, 3400, 3750, 3800,
                        4800, 4900, 400000}

IsNumeral(a) == \E n \in NumSet : ToString(n) = a

parseInt(a) == CHOOSE n \in NumSet : ToString(n) = a

----------------------------------------------------------------------------
(* Dates *)

DateAt(t) == [kind |-> "Date", t |-> t, s |-> <<>>]
InvalidDate == [kind |-> "Invalid", t |-> 0, s |-> <<>>]
DateString(s) == [kind |-> "string", t |-> 0, s |-> s]
NoDate == [kind |-> "absent", t |-> 0, s |-> <<>>]

\* The time value range of a Date: 100,000,000 days either side of the epoch
\* (TimeClip); a time value outside it makes an Invalid Date.
MaxDateDays == 100000000

DaySeconds == 86400

\* Date.prototype.setHours(0, 0, 0, 0), the process running in UTC.
StartOfDay(t) == t - (t % DaySeconds)

\* The unit table of parseDate, in seconds (the source has milliseconds),
\* keyed by the lower-case unit word with or without the plural s.
UnitSeconds(u) ==
    CASE u \in {"second", "seconds"} -> 1
      [] u \in {"minute", "minutes"} -> 60
      [] u \in {"hour", "hours"} -> 3600
      [] u \in {"day", "days"} -> DaySeconds
      [] u \in {"week", "weeks"} -> 7 * DaySeconds
      [] u \in {"month", "months"} -> 30 * DaySeconds
      [] u \in {"year", "years"} -> 365 * DaySeconds
      [] OTHER -> 0

\* new Date(d.getTime() - n * map[unit]): Invalid Date when the time value
\* leaves the range.  The range test is made in whole days so that it needs
\* no number beyond 32 bits; a unit shorter than a day cannot leave the range
\* with any n the model can write.
DateAgo(now, n, unit) ==
    IF unit >= DaySeconds
       /\ n > (MaxDateDays + now \div DaySeconds) \div (unit \div DaySeconds)
    THEN InvalidDate
    ELSE DateAt(now - n * unit)

\* Date.parse of the texts a user may type (new Date(text)): the calendar
\* dates the model knows; every other text is not a date.
KnownDateTexts ==
    { <<"Feb", SP, "14", SP, "2026">>, <<"Feb", SP, "14", ",", SP, "2026">>,
      <<"2026-02-14">> }

Feb14 == 1771027200

DateParseText(text) ==
    IF text \in KnownDateTexts THEN DateAt(Feb14) ELSE InvalidDate

----------------------------------------------------------------------------
(* The regular expressions of the parser.  A pattern is a sequence of       *)
(* elements, each matched at an index i of the text s and giving the index  *)
(* after it, 0 when it does not match.  The whitespace runs of a pattern    *)
(* stand before elements that cannot start with whitespace, so a greedy     *)
(* \s+ takes the whole run.                                                 *)

\* One alternative r of a rank alternation, in any letter case (flag i).
AltAt(s, i, r) ==
    IF i + Len(r) - 1 <= Len(s)
       /\ toLowerCase(SubSeq(s, i, i + Len(r) - 1)) = toLowerCase(r)
    THEN i + Len(r) ELSE 0

\* \s+
SpacesAt(s, i) ==
    IF i <= Len(s) /\ IsSpace(s[i]) THEN SkipSpaces(s, i) ELSE 0

\* \s+(.+)$: the index where (.+) starts; when the run reaches the end of
\* the text, \s+ gives its last character back to (.+).
TailAt(s, i) ==
    IF i > Len(s) \/ ~IsSpace(s[i]) THEN 0
    ELSE IF SkipSpaces(s, i) <= Len(s) THEN SkipSpaces(s, i)
    ELSE IF Len(s) > i THEN Len(s) ELSE 0

\* An atom [A-Za-z]+ matches.
IsWordAtom(a) == ~IsSpace(a) /\ ~IsNumeral(a)
                 /\ a \notin {"@", "<", ">", "\"", "'", ";", "(", ")", ",",
                             "-->", "<!--STATE:", "2026-02-14", "{", "}"}

Alt(r) == [k |-> "alt", r |-> r]
El(k) == [k |-> k, r |-> <<>>]

\* The element el at index i of s.
MatchEl(s, i, el) ==
    CASE el.k = "alt" -> AltAt(s, i, el.r)
      [] el.k = "sp" -> SpacesAt(s, i)
      [] el.k = "tail" -> TailAt(s, i)
      [] i > Len(s) -> 0
      [] el.k = "nonsp" -> IF IsSpace(s[i]) THEN 0 ELSE SkipNonSpaces(s, i)
      [] el.k = "num" -> IF IsNumeral(s[i]) THEN i + 1 ELSE 0
      [] el.k = "unit" -> IF UnitSeconds(s[i]) > 0 THEN i + 1 ELSE 0
      [] el.k = "ago" -> IF s[i] = "ago" THEN i + 1 ELSE 0
      [] el.k = "word" -> IF IsWordAtom(s[i]) THEN i + 1 ELSE 0
      [] el.k = "day" ->
            IF IsNumeral(s[i]) /\ parseInt(s[i]) < 100 THEN i + 1 ELSE 0
      [] el.k = "year" ->
            IF IsNumeral(s[i]) /\ parseInt(s[i]) \in 1000..9999 THEN i + 1 ELSE 0
      [] OTHER -> 0

RECURSIVE MatchFrom(_, _, _, _)

\* The elements pat from index i of s on: the indices after each element,
\* behind those of acc; <<>> when an element does not match.
MatchFrom(s, i, pat, acc) ==
    IF pat = <<>> THEN acc
    ELSE LET Step(j) == IF j = 0 THEN <<>>
                        ELSE MatchFrom(s, j, Tail(pat), Append(acc, j))
         IN  Step(MatchEl(s, i, Head(pat)))

\* ^pat on s: the indices after each element (for a tail the index where
\* it starts), <<>> when s does not match.
Match(s, pat) == MatchFrom(s, 1, pat, <<>>)

\* ^pat$ on s
MatchWhole(s, pat) ==
    LET Whole(ps) == IF ps # <<>> /\ ps[Len(ps)] = Len(s) + 1 THEN ps ELSE <<>>
    IN  Whole(Match(s, pat))

\* /^(\d+)\s+(second|minute|hour|day|week|month|year)s?\s+ago$/ on s
RelMatch(s) ==
    LET Groups(ps) ==
            IF ps = <<>> THEN [ok |-> FALSE, n |-> 0, unit |-> 0]
            ELSE [ok |-> TRUE, n |-> parseInt(s[1]),
                  unit |-> UnitSeconds(s[ps[3] - 1])]
    IN  Groups(MatchWhole(s, <<El("num"), El("sp"), El("unit"), El("sp"), El("ago")>>))

\* /^([A-Za-z]+)\s+(\d{1,2})\s+(\d{4})$/ on the trimmed raw text; the result
\* is the text `${m[1]} ${m[2]}, ${m[3]}` handed to new Date.
NatMatch(r) ==
    LET Groups(ps) ==
            IF ps = <<>> THEN [ok |-> FALSE, text |-> <<>>]
            ELSE [ok |-> TRUE,
                  text |-> <<r[1], SP, r[ps[3] - 1], ",", SP, r[ps[5] - 1]>>]
    IN  Groups(MatchWhole(r, <<El("word"), El("sp"), El("day"), El("sp"), El("year")>>))

\* new Date(text), and the clock when that is no date: the last two branches
\* of parseDate.
DateOrNow(text, now) ==
    IF text \in KnownDateTexts THEN DateParseText(text) ELSE DateAt(now)

\* parseDate(raw) called while the clock reads now.
parseDate(raw, now) ==
    LET Natural(r, nat) ==
            IF nat.ok /\ nat.text \in KnownDateTexts THEN DateParseText(nat.text)
            ELSE DateOrNow(r, now)
        Relative(r, rel) ==
            IF rel.ok THEN DateAgo(now, rel.n, rel.unit)
            ELSE Natural(r, NatMatch(r))
        Words(r, s) ==
            IF s = <<"now">> \/ s = <<"just", SP, "now">> THEN DateAt(now)
            ELSE IF s = <<"today">> THEN DateAt(StartOfDay(now))
            ELSE IF s = <<"yesterday">> THEN DateAt(StartOfDay(now) - DaySeconds)
            ELSE Relative(r, RelMatch(s))
        Trimmed(r) == Words(r, toLowerCase(r))
    IN  IF raw = <<>> THEN DateAt(now) ELSE Trimmed(trim(raw))


----------------------------------------------------------------------------
(* parser.js: the three grammars *)

\* What parseMessage returns for a message it rejects.
Null == [game |-> "null"]

StripChars == {"<", ">", "\"", "'", ";", "(", ")"}

\* sanitise without the replace: the text trimmed only.
sanitiseTrimOnly(s) == trim(s)

\* sanitise(s): String(s).replace(/[<>"';()]/g, '').trim()
sanitise(s) == trim(SelectSeq(s, LAMBDA a : a \notin StripChars))

\* content.replace(/^\s*<prefix>\s*/i, '').trim(), prefix in lower case
StripPrefix(text, prefix) ==
    LET From(i) == IF i <= Len(text) /\ ToLowerAtom(text[i]) = prefix
                   THEN trim(SubSeq(text, SkipSpaces(text, i + 1), Len(text)))
                   ELSE trim(text)
    IN  From(SkipSpaces(text, 1))

\* /^@(.+?)\s+(\S+)\s+(.+)$/ with the lazy group ending at index e of body
PlayerMatchAt(body, e) ==
    LET Groups(ps) ==
            IF ps = <<>>
            THEN [ok |-> FALSE, name |-> <<>>, role |-> <<>>, rest |-> <<>>]
            ELSE [ok |-> TRUE,
                  name |-> SubSeq(body, 2, e),
                  role |-> SubSeq(body, ps[1], ps[2] - 1),
                  rest |-> SubSeq(body, ps[3], Len(body))]
    IN  Groups(MatchFrom(body, e + 1, <<El("sp"), El("nonsp"), El("tail")>>, <<>>))

\* body.match(/^@(.+?)\s+(\S+)\s+(.+)$/): the lazy (.+?) stops at the first
\* index that lets the rest of the pattern match.
PlayerMatch(body) ==
    LET First(ends) ==
            IF ends = {}
            THEN [ok |-> FALSE, name |-> <<>>, role |-> <<>>, rest |-> <<>>]
            ELSE PlayerMatchAt(body, CHOOSE e \in ends : \A f \in ends : e <= f)
    IN  First({e \in 2..Len(body) : body[1] = "@" /\ PlayerMatchAt(body, e).ok})

\* The rank as the message wrote it, found or not.
normaliseRankNameAsWritten(raw, rankList) == trim(raw)

\* normaliseRankName(raw, rankList): <<>> for null
normaliseRankName(raw, rankList) ==
    LET Find(lower) ==
            LET Found(ks) == IF ks = {} THEN <<>>
                             ELSE rankList[CHOOSE k \in ks : \A j \in ks : k <= j]
            IN  Found({k \in 1..Len(rankList) : toLowerCase(rankList[k]) = lower})
    IN  Find(trim(toLowerCase(raw)))

\* ^(alt)\s+(\d+)\s+(alt)\s+(\d+)\s+(.+)$ with the alternatives a and b chosen
MRPatternWith(rest, a, b) ==
    LET Groups(ps) ==
            IF ps = <<>> THEN [ok |-> FALSE]
            ELSE [ok |-> TRUE,
                  rankCurrent |-> SubSeq(rest, 1, ps[1] - 1),
                  tierCurrentRaw |-> rest[ps[3] - 1],
                  rankPeak |-> SubSeq(rest, ps[4], ps[5] - 1),
                  tierPeakRaw |-> rest[ps[7] - 1],
                  dateRaw |-> SubSeq(rest, ps[8], Len(rest))]
    IN  Groups(Match(rest, <<Alt(a), El("sp"), El("num"), El("sp"),
                             Alt(b), El("sp"), El("num"), El("tail")>>))

\* ^(alt)\s+(\d+)\s+(\d+)\s+(alt)\s+(\d+)\s+(\d+)\s+(.+)$
OWPatternWith(rest, a, b) ==
    LET Groups(ps) ==
            IF ps = <<>> THEN [ok |-> FALSE]
            ELSE [ok |-> TRUE,
                  rankCurrent |-> SubSeq(rest, 1, ps[1] - 1),
                  tierCurrentRaw |-> rest[ps[3] - 1],
                  currentValueRaw |-> rest[ps[5] - 1],
                  rankPeak |-> SubSeq(rest, ps[6], ps[7] - 1),
                  tierPeakRaw |-> rest[ps[9] - 1],
                  peakValueRaw |-> rest[ps[11] - 1],
                  dateRaw |-> SubSeq(rest, ps[12], Len(rest))]
    IN  Groups(Match(rest, <<Alt(a), El("sp"), El("num"), El("sp"), El("num"),
                             El("sp"), Alt(b), El("sp"), El("num"), El("sp"),
                             El("num"), El("tail")>>))

\* ^(alt)\s+(\d+)\s+(\d+)\s+(.+)$
DLPatternWith(rest, a) ==
    LET Groups(ps) ==
            IF ps = <<>> THEN [ok |-> FALSE]
            ELSE [ok |-> TRUE,
                  rankCurrent |-> SubSeq(rest, 1, ps[1] - 1),
                  tierCurrentRaw |-> rest[ps[3] - 1],
                  currentValueRaw |-> rest[ps[5] - 1],
                  dateRaw |-> SubSeq(rest, ps[6], Len(rest))]
    IN  Groups(Match(rest, <<Alt(a), El("sp"), El("num"), El("sp"), El("num"),
                             El("tail")>>))

\* The pairs (i, j) of alternatives in the order a backtracking matcher
\* tries them: i before i+1, and for one i, j before j+1.
AltPairs(alt) == (1..Len(alt)) \X (1..Len(alt))

FirstPair(S) ==
    CHOOSE p \in S : \A q \in S :
        p[1] < q[1] \/ (p[1] = q[1] /\ p[2] <= q[2])

\* rest.match(rankPattern) for Marvel Rivals
MRPattern(rest) ==
    LET With(p) == MRPatternWith(rest, mrRankAlt[p[1]], mrRankAlt[p[2]])
        Pick(hits) == IF hits = {} THEN [ok |-> FALSE] ELSE With(FirstPair(hits))
    IN  Pick({p \in AltPairs(mrRankAlt) : With(p).ok})

\* rest.match(rankPattern) for Overwatch
OWPattern(rest) ==
    LET With(p) == OWPatternWith(rest, owRankAlt[p[1]], owRankAlt[p[2]])
        Pick(hits) == IF hits = {} THEN [ok |-> FALSE] ELSE With(FirstPair(hits))
    IN  Pick({p \in AltPairs(owRankAlt) : With(p).ok})

\* rest.match(rankPattern) for Deadlock
DLPattern(rest) ==
    LET With(k) == DLPatternWith(rest, dlRankAlt[k])
        Pick(hits) == IF hits = {} THEN [ok |-> FALSE]
                      ELSE With(CHOOSE k \in hits : \A j \in hits : k <= j)
    IN  Pick({k \in 1..Len(dlRankAlt) : With(k).ok})


TOP500 == <<"Top", SP, "500">>

\* The tier tests: tier < 1 || tier > 3 (Marvel Rivals), > 5 (Overwatch,
\* ranks other than Top 500), > 6 (Deadlock).
\* The Overwatch bound in place of the Marvel Rivals one.
mrTierOutWide(tier) == tier < 1 \/ tier > 5

mrTierOut(tier) == tier < 1 \/ tier > 3

\* The placement range of Top 500 as the bound of every rank.
owTierOutPlacement(tier) == tier < 1 \/ tier > 500

owTierOut(tier) == tier < 1 \/ tier > 5

dlTierOut(tier) == tier < 1 \/ tier > 6

\* parseMarvelRivals(content), the clock reading now
parseMarvelRivals(text, now) ==
    LET Build(pm, m, rankCurrentNorm, rankPeakNorm, tierCurrent, tierPeak) ==
            IF rankCurrentNorm = <<>> \/ rankPeakNorm = <<>> THEN Null
            ELSE IF mrTierOut(tierCurrent) THEN Null
            ELSE IF mrTierOut(tierPeak) THEN Null
            ELSE [game |-> "MARVEL_RIVALS",
                  playerName |-> sanitise(pm.name),
                  role |-> sanitise(pm.role),
                  rankCurrent |-> rankCurrentNorm,
                  tierCurrent |-> tierCurrent,
                  rankPeak |-> rankPeakNorm,
                  tierPeak |-> tierPeak,
                  date |-> parseDate(m.dateRaw, now),
                  dateRaw |-> trim(m.dateRaw)]
        Ranks(pm, m) ==
            IF ~m.ok THEN Null
            ELSE Build(pm, m, normaliseRankName(m.rankCurrent, MR_RANKS),
                       normaliseRankName(m.rankPeak, MR_RANKS),
                       parseInt(m.tierCurrentRaw), parseInt(m.tierPeakRaw))
        Player(pm) == IF ~pm.ok THEN Null ELSE Ranks(pm, MRPattern(pm.rest))
    IN  Player(PlayerMatch(StripPrefix(text, "lb_update_mr:")))

\* parseOverwatch(content), the clock reading now
parseOverwatch(text, now) ==
    LET Build(pm, m, rankCurrentNorm, rankPeakNorm, tierCurrent, tierPeak) ==
            IF rankCurrentNorm = <<>> \/ rankPeakNorm = <<>> THEN Null
            ELSE IF rankCurrentNorm # TOP500 /\ owTierOut(tierCurrent) THEN Null
            ELSE IF rankPeakNorm # TOP500 /\ owTierOut(tierPeak) THEN Null
            ELSE [game |-> "OVERWATCH",
                  playerName |-> sanitise(pm.name),
                  role |-> sanitise(pm.role),
                  rankCurrent |-> rankCurrentNorm,
                  tierCurrent |-> tierCurrent,
                  currentValue |-> parseInt(m.currentValueRaw),
                  rankPeak |-> rankPeakNorm,
                  tierPeak |-> tierPeak,
                  peakValue |-> parseInt(m.peakValueRaw),
                  date |-> parseDate(m.dateRaw, now),
                  dateRaw |-> trim(m.dateRaw)]
        Ranks(pm, m) ==
            IF ~m.ok THEN Null
            ELSE Build(pm, m, normaliseRankName(m.rankCurrent, OW_RANKS),
                       normaliseRankName(m.rankPeak, OW_RANKS),
                       parseInt(m.tierCurrentRaw), parseInt(m.tierPeakRaw))
        Player(pm) == IF ~pm.ok THEN Null ELSE Ranks(pm, OWPattern(pm.rest))
    IN  Player(PlayerMatch(StripPrefix(text, "lb_update_ow:")))

\* parseDeadlock(content), the clock reading now
parseDeadlock(text, now) ==
    LET Build(pm, m, rankCurrentNorm, tierCurrent) ==
            IF rankCurrentNorm = <<>> THEN Null
            ELSE IF dlTierOut(tierCurrent) THEN Null
            ELSE [game |-> "DEADLOCK",
                  playerName |-> sanitise(pm.name),
                  hero |-> sanitise(pm.role),
                  rankCurrent |-> rankCurrentNorm,
                  tierCurrent |-> tierCurrent,
                  currentValue |-> parseInt(m.currentValueRaw),
                  date |-> parseDate(m.dateRaw, now),
                  dateRaw |-> trim(m.dateRaw)]
        Ranks(pm, m) ==
            IF ~m.ok THEN Null
            ELSE Build(pm, m, normaliseRankName(m.rankCurrent, DL_RANKS),
                       parseInt(m.tierCurrentRaw))
        Player(pm) == IF ~pm.ok THEN Null ELSE Ranks(pm, DLPattern(pm.rest))
    IN  Player(PlayerMatch(StripPrefix(text, "lb_update_dl:")))

\* A prefix test that any non-empty text passes.
HasPrefixAny(trimmed, prefix) == Len(trimmed) >= 1

\* /^<prefix>/i.test(trimmed), prefix in lower case
HasPrefix(trimmed, prefix) ==
    Len(trimmed) >= 1 /\ ToLowerAtom(trimmed[1]) = prefix

\* parseMessage(content): c is [isText, text], a content that is not a
\* string (null, undefined, a number) having isText = FALSE.
parseMessage(c, now) ==
    LET Dispatch(trimmed) ==
            IF HasPrefix(trimmed, "lb_update_mr:") THEN parseMarvelRivals(trimmed, now)
            ELSE IF HasPrefix(trimmed, "lb_update_ow:") THEN parseOverwatch(trimmed, now)
            ELSE IF HasPrefix(trimmed, "lb_update_dl:") THEN parseDeadlock(trimmed, now)
            ELSE Null
    IN  IF ~c.isText THEN Null ELSE Dispatch(trim(c.text))


----------------------------------------------------------------------------
(* The messages the parser is run on.  A message is composed from its      *)
(* fields, so that a property can speak of the field a text was written    *)
(* with: lead (leading whitespace), prefix, gap (whitespace after the      *)
(* prefix), name (with its @), role, the current and the peak rank group   *)
(* [rank, tier, value] and the date text.  An absent field is <<>> ("" for *)
(* a tier or value).                                                       *)

\* The clock reading of the run (2026-11-05T12:30:00Z).
NowT == 1793881800

NoGroup == [rank |-> <<>>, tier |-> "", value |-> ""]

Word(a) == IF a = "" THEN <<>> ELSE <<a>>

GroupText(g) ==
    LET t == Word(g.tier)
        v == Word(g.value)
    IN  g.rank \o (IF t = <<>> THEN <<>> ELSE (IF g.rank = <<>> THEN t ELSE <<SP>> \o t))
               \o (IF v = <<>> THEN <<>> ELSE <<SP>> \o v)

RECURSIVE JoinSP(_)
JoinSP(parts) ==
    IF parts = <<>> THEN <<>>
    ELSE LET tl == JoinSP(Tail(parts))
         IN  IF Head(parts) = <<>> THEN tl
             ELSE IF tl = <<>> THEN Head(parts)
             ELSE Head(parts) \o <<SP>> \o tl

Body(f) == JoinSP(<<f.name, f.role, GroupText(f.cur), GroupText(f.peak), f.date>>)

\* The content of the message written with fields f.
Content(f) ==
    [isText |-> f.isText, text |-> f.lead \o f.prefix \o f.gap \o Body(f)]

Form(prefix, name, role, cur, peak, date) ==
    [isText |-> TRUE, lead |-> <<>>, prefix |-> prefix, gap |-> <<SP>>,
     name |-> name, role |-> role, cur |-> cur, peak |-> peak, date |-> date]

G(rank, tier, value) == [rank |-> rank, tier |-> tier, value |-> value]

TierAtoms == {"0", "1", "3", "4", "5", "6", "7", "47"}

\* Every pair of tiers, in and out of bound, under each game's ranks.
TierForms ==
    {Form(<<"LB_UPDATE_MR:">>, <<"@", "Turbo">>, <<"Duelist">>,
          G(r1, t1, ""), G(<<"Gold">>, t2, ""), <<"today">>) :
        r1 \in {<<"Diamond">>, <<"One", SP, "Above", SP, "All">>},
        t1 \in TierAtoms, t2 \in TierAtoms}
    \cup
    {Form(<<"LB_UPDATE_OW:">>, <<"@", "Alpha">>, <<"Tank">>,
          G(r1, t1, "3200"), G(r2, t2, "3200"), <<"2", SP, "days", SP, "ago">>) :
        r1 \in {<<"Diamond">>, TOP500}, r2 \in {<<"Master">>, <<"top", SP, "500">>},
        t1 \in TierAtoms, t2 \in TierAtoms}
    \cup
    {Form(<<"LB_UPDATE_DL:">>, <<"@", "Turbo">>, <<"Haze">>,
          G(r1, t1, "1200"), NoGroup, <<"Feb", SP, "14", SP, "2026">>) :
        r1 \in {<<"Archon">>, <<"Eternus">>}, t1 \in TierAtoms}

MRBody == Form(<<>>, <<"@", "Turbo">>, <<"Duelist">>,
               G(<<"Diamond">>, "2", ""), G(<<"Grandmaster">>, "1", ""), <<"yesterday">>)
OWBody == Form(<<>>, <<"@", "Alpha">>, <<"Tank">>,
               G(<<"Diamond">>, "3", "3200"), G(<<"Master">>, "2", "3200"), <<"today">>)
DLBody == Form(<<>>, <<"@", "Turbo">>, <<"Haze">>,
               G(<<"ARCHON">>, "4", "1200"), NoGroup, <<"now">>)

PrefixAtoms ==
    {<<"LB_UPDATE_MR:">>, <<"lb_update_mr:">>, <<"Lb_Update_Mr:">>,
     <<"LB_UPDATE_OW:">>, <<"lb_update_ow:">>, <<"LB_UPDATE_DL:">>,
     <<"lb_update_dl:">>, <<"LB_UPDATE_XX:">>, <<>>}

\* Every prefix, in several spellings, before a body of each game.
PrefixForms ==
    {[b EXCEPT !.prefix = p, !.lead = l, !.gap = g] :
        b \in {MRBody, OWBody, DLBody}, p \in PrefixAtoms,
        l \in {<<>>, <<SP>>}, g \in {<<>>, <<SP>>, <<SP, SP>>}}

\* A well-formed message of each game with one field left out or spoilt.
Spoilt(b) ==
    {[b EXCEPT !.name = <<>>], [b EXCEPT !.name = Tail(b.name)],
     [b EXCEPT !.role = <<>>], [b EXCEPT !.date = <<>>],
     [b EXCEPT !.cur.tier = ""], [b EXCEPT !.cur.rank = <<>>],
     [b EXCEPT !.cur.rank = <<"FakeRank">>],
     [b EXCEPT !.cur = NoGroup],
     [b EXCEPT !.name = <<>>, !.role = <<>>, !.cur = NoGroup, !.peak = NoGroup,
               !.date = <<>>]}

SpoiltForms ==
    UNION {Spoilt([MRBody EXCEPT !.prefix = <<"LB_UPDATE_MR:">>]),
           Spoilt([MRBody EXCEPT !.prefix = <<"LB_UPDATE_MR:">>,
                                 !.peak.rank = <<"Master">>]),
           Spoilt([MRBody EXCEPT !.prefix = <<"LB_UPDATE_MR:">>,
                                 !.peak = NoGroup]),
           Spoilt([OWBody EXCEPT !.prefix = <<"LB_UPDATE_OW:">>]),
           Spoilt([OWBody EXCEPT !.prefix = <<"LB_UPDATE_OW:">>,
                                 !.peak.value = ""]),
           Spoilt([DLBody EXCEPT !.prefix = <<"LB_UPDATE_DL:">>]),
           Spoilt([DLBody EXCEPT !.prefix = <<"LB_UPDATE_DL:">>,
                                 !.cur.value = ""])}
    \cup {[MRBody EXCEPT !.isText = FALSE],
          [MRBody EXCEPT !.prefix = <<"LB_UPDATE_MR:">>, !.gap = <<>>,
                         !.name = <<>>, !.role = <<>>, !.cur = NoGroup,
                         !.peak = NoGroup, !.date = <<>>]}

PlayerNames ==
    {<<"@", "Turbo">>, <<"@", "TURBO">>, <<"@", "Turbo", SP, "Star">>,
     <<"@", "Alpha", SP, "Turbo", SP, "Star">>, <<"@", "<", "Turbo", ">">>}

\* One-word and multi-word player names before a well-formed remainder.
NameForms ==
    {[b EXCEPT !.name = n, !.role = r, !.date = d] :
        b \in {[MRBody EXCEPT !.prefix = <<"LB_UPDATE_MR:">>],
               [OWBody EXCEPT !.prefix = <<"LB_UPDATE_OW:">>],
               [DLBody EXCEPT !.prefix = <<"LB_UPDATE_DL:">>]},
        n \in PlayerNames, r \in {<<"Duelist">>, <<"Haze">>},
        d \in {<<"today">>, <<"3", SP, "days", SP, "ago">>}}

\* The rank names of the three games as the vocabularies spell them, in
\* lower case and, for some, in upper case, and names of no vocabulary.
RankSpellings ==
    LET Of(list) == {list[i] : i \in 1..Len(list)}
        Canon == Of(MR_RANKS) \cup Of(OW_RANKS) \cup Of(DL_RANKS)
    IN  Canon \cup {toLowerCase(r) : r \in Canon}
        \cup {<<"GOLD">>, <<"DIAMOND">>, <<"ARCHON">>, <<"TOP", SP, "500">>,
              <<"ONE", SP, "ABOVE", SP, "ALL">>}
        \cup {<<"FakeRank">>, <<"Top">>, <<"One", SP, "Above">>}

\* A well-formed message of each game with every rank spelling in turn as
\* its current and as its peak rank.
RankForms ==
    {[b EXCEPT !.cur.rank = r] :
        b \in {[MRBody EXCEPT !.prefix = <<"LB_UPDATE_MR:">>],
               [OWBody EXCEPT !.prefix = <<"LB_UPDATE_OW:">>],
               [DLBody EXCEPT !.prefix = <<"LB_UPDATE_DL:">>]},
        r \in RankSpellings}
    \cup
    {[b EXCEPT !.peak.rank = r] :
        b \in {[MRBody EXCEPT !.prefix = <<"LB_UPDATE_MR:">>],
               [OWBody EXCEPT !.prefix = <<"LB_UPDATE_OW:">>]},
        r \in RankSpellings}

\* Player names and roles written with the characters sanitise strips and
\* with whitespace around them.
SanitiseForms ==
    {[b EXCEPT !.name = n, !.role = r] :
        b \in {[MRBody EXCEPT !.prefix = <<"LB_UPDATE_MR:">>],
               [OWBody EXCEPT !.prefix = <<"LB_UPDATE_OW:">>],
               [DLBody EXCEPT !.prefix = <<"LB_UPDATE_DL:">>]},
        n \in {<<"@", "<", "Turbo", ">">>, <<"@", SP, "Turbo">>,
               <<"@", "\"", "Turbo", "\"", ";">>, <<"@", "(", "'", "Turbo">>,
               <<"@", "<", ">">>, <<"@", "Turbo", ")">>},
        r \in {<<"Duelist">>, <<"(", "Duelist", ")">>, <<"Tank", ";">>,
               <<"<", "'", "Haze", "'", ">">>, <<"\"", "\"">>}}

\* The example messages of the README's section "Message Format Examples".
ReadmeForms ==
    {Form(<<"LB_UPDATE_MR:">>, <<"@", "Turbo">>, <<"Strategist">>,
          G(<<"Diamond">>, "2", ""), G(<<"Master">>, "1", ""), <<"yesterday">>),
     Form(<<"LB_UPDATE_MR:">>, <<"@", "Alice">>, <<"Duelist">>,
          G(<<"One", SP, "Above", SP, "All">>, "1", ""),
          G(<<"One", SP, "Above", SP, "All">>, "1", ""),
          <<"2", SP, "hours", SP, "ago">>),
     Form(<<"LB_UPDATE_MR:">>, <<"@", "Bob">>, <<"Vanguard">>,
          G(<<"Bronze">>, "3", ""), G(<<"Gold">>, "2", ""),
          <<"3", SP, "days", SP, "ago">>),
     Form(<<"LB_UPDATE_OW:">>, <<"@", "Alpha">>, <<"Tank">>,
          G(<<"Diamond">>, "3", "3200"), G(<<"Master">>, "2", "3400"),
          <<"2", SP, "days", SP, "ago">>),
     Form(<<"LB_UPDATE_OW:">>, <<"@", "ProPlayer">>, <<"DPS">>,
          G(TOP500, "47", "4800"), G(TOP500, "12", "4900"), <<"today">>),
     Form(<<"LB_UPDATE_OW:">>, <<"@", "Healer">>, <<"Support">>,
          G(<<"Master">>, "1", "3750"), G(<<"Grandmaster">>, "2", "3800"),
          <<"5", SP, "hours", SP, "ago">>),
     Form(<<"LB_UPDATE_DL:">>, <<"@", "Player2">>, <<"Haze">>,
          G(<<"Archon">>, "4", "1200"), NoGroup, <<"Feb", SP, "14", SP, "2026">>),
     Form(<<"LB_UPDATE_DL:">>, <<"@", "TopPlayer">>, <<"Dynamo">>,
          G(<<"Eternus">>, "6", "250"), NoGroup, <<"yesterday">>),
     Form(<<"LB_UPDATE_DL:">>, <<"@", "NewPlayer">>, <<"Lady", SP, "Geist">>,
          G(<<"Initiate">>, "1", "50"), NoGroup, <<"today">>)}

Forms == TierForms \cup PrefixForms \cup SpoiltForms \cup NameForms
         \cup RankForms \cup SanitiseForms \cup ReadmeForms

----------------------------------------------------------------------------
(* The parser run: one message drawn, parseMessage applied to it *)

\* The variables of the storage run, at rest during a parser run.
ParseInit ==
    /\ msg \in Forms
    /\ parsed = Null
    /\ ppc = "input"
    /\ players = <<>>
    /\ state = [kind |-> "none"]
    /\ content = [isText |-> FALSE, text |-> <<>>]
    /\ origin = "none"
    /\ saved = <<>>
    /\ op = [name |-> "none", ret |-> "none"]
    /\ data = Null
    /\ prev = <<>>
    /\ gameType = "none"
    /\ sorted = <<>>
    /\ updates = <<>>
    /\ cursor = 0
    /\ deleted = {}
    /\ rpc = "idle"
    /\ inbox = <<>>
    /\ byGame = <<>>
    /\ stateMsgs = <<>>
    /\ log = <<>>
    /\ del = [pc |-> "idle"]
    /\ rtc = [pc |-> "idle"]

\* const parsed = parseMessage(msg.content)
Result == parseMessage(Content(msg), NowT)

\* parseMessage(msg.content) returning an update
ParseAccept ==
    /\ ppc = "input"
    /\ parsed' = Result
    /\ parsed' # Null
    /\ ppc' = "done"
    /\ UNCHANGED <<auxVars, msg, storageVars, runVars>>

\* parseMessage(msg.content) returning null
ParseReject ==
    /\ ppc = "input"
    /\ Result = Null
    /\ parsed' = Null
    /\ ppc' = "done"
    /\ UNCHANGED <<auxVars, msg, storageVars, runVars>>

ParseNext == ParseAccept \/ ParseReject

SpecParse == ParseInit /\ [][ParseNext]_vars


----------------------------------------------------------------------------
(* storage.js: JSON text.  JSON.stringify(_, null, 0) writes no whitespace  *)
(* outside strings; the text is a sequence of atoms: the punctuation        *)
(* { } [ ] , : and the string quote, a numeral, null, and inside a string   *)
(* the atoms of the string (a quote inside a string is written escaped).    *)

QUOTE == "\""
ESCQUOTE == "\\\""

\* The keys of a player object in insertion order: that of the object
\* literal each parse function returns, kept by the spreads {...data, date}
\* and {...p, date}.
KeyOrder ==
    <<"game", "playerName", "role", "hero", "rankCurrent", "tierCurrent",
      "currentValue", "rankPeak", "tierPeak", "peakValue", "date", "dateRaw">>

NumberKeys == {"tierCurrent", "currentValue", "tierPeak", "peakValue"}

\* Date.prototype.toISOString of a valid Date: one atom (a timestamp).
toISOString(t) == "T" \o ToString(t)

\* A JavaScript string as JSON text.
StringifyString(str) ==
    <<QUOTE>> \o [i \in 1..Len(str) |-> IF str[i] = QUOTE THEN ESCQUOTE ELSE str[i]]
              \o <<QUOTE>>

\* The date property of a player object as JSON text: a string is written
\* as it is, a Date through toJSON (toISOString, null when invalid).
StringifyDate(d) ==
    CASE d.kind = "string" -> StringifyString(d.s)
      [] d.kind = "Date" -> StringifyString(<<toISOString(d.t)>>)
      [] OTHER -> <<"null">>

StringifyField(p, key) ==
    StringifyString(<<key>>) \o <<":">> \o
    (IF key = "date" THEN StringifyDate(p[key])
     ELSE IF key = "game" THEN StringifyString(<<p[key]>>)
     ELSE IF key \in NumberKeys THEN <<ToString(p[key])>>
     ELSE StringifyString(p[key]))

\* The keys JSON.stringify writes for p: its own keys, an undefined date
\* left out.
WrittenKeys(p) ==
    SelectSeq(KeyOrder, LAMBDA key :
        key \in DOMAIN p /\ (key = "date" => p[key].kind # "absent"))

RECURSIVE JoinComma(_)
JoinComma(parts) ==
    IF parts = <<>> THEN <<>>
    ELSE IF Len(parts) = 1 THEN Head(parts)
    ELSE Head(parts) \o <<",">> \o JoinComma(Tail(parts))

StringifyPlayer(p) ==
    LET keys == WrittenKeys(p)
    IN  <<"{">> \o JoinComma([i \in 1..Len(keys) |-> StringifyField(p, keys[i])])
               \o <<"}">>

\* JSON.stringify(v, null, 0) of the values encodeState is called with: an
\* object {players: [...]} (kind "roster") or a string (kind "string").
JSONstringify(v) ==
    IF v.kind = "string" THEN StringifyString(v.str)
    ELSE <<"{">> \o StringifyString(<<"players">>) \o <<":", "[">>
         \o JoinComma([i \in 1..Len(v.players) |-> StringifyPlayer(v.players[i])])
         \o <<"]", "}">>

----------------------------------------------------------------------------
(* JSON.parse: a recursive descent over the atoms.  A parse result is      *)
(* [ok, v, next]: v the value ([ty |-> "str", str], [ty |-> "num", num],   *)
(* [ty |-> "null"], [ty |-> "arr", items], [ty |-> "obj", keys, vals]) and  *)
(* next the index after it; ok = FALSE is the SyntaxError.                 *)

Fail == [ok |-> FALSE, v |-> [ty |-> "null"], next |-> 0]

\* The index of the quote that closes the string opened before index i.
ClosingQuote(toks, i) ==
    IF \E j \in i..Len(toks) : toks[j] = QUOTE
    THEN CHOOSE j \in i..Len(toks) :
            toks[j] = QUOTE /\ \A k \in i..(j - 1) : toks[k] # QUOTE
    ELSE 0

ParseString(toks, i) ==
    LET Closed(c) ==
            IF c = 0 THEN Fail
            ELSE [ok |-> TRUE,
                  v |-> [ty |-> "str",
                         str |-> [k \in 1..(c - i - 1) |->
                                    IF toks[i + k] = ESCQUOTE THEN QUOTE ELSE toks[i + k]]],
                  next |-> c + 1]
    IN  IF i <= Len(toks) /\ toks[i] = QUOTE THEN Closed(ClosingQuote(toks, i + 1))
        ELSE Fail

RECURSIVE ParseValue(_, _), ParseItems(_, _, _), ParseMembers(_, _, _, _)

\* The elements of an array from index i on, acc holding those read.
ParseItems(toks, i, acc) ==
    LET After(e) ==
            IF ~e.ok \/ e.next > Len(toks) THEN Fail
            ELSE IF toks[e.next] = ","
                 THEN ParseItems(toks, e.next + 1, Append(acc, e.v))
            ELSE IF toks[e.next] = "]"
                 THEN [ok |-> TRUE, v |-> [ty |-> "arr", items |-> Append(acc, e.v)],
                       next |-> e.next + 1]
            ELSE Fail
    IN  After(ParseValue(toks, i))

\* The members of an object from index i on.
ParseMembers(toks, i, keys, vals) ==
    LET After(k, e) ==
            IF ~e.ok \/ e.next > Len(toks) THEN Fail
            ELSE IF toks[e.next] = ","
                 THEN ParseMembers(toks, e.next + 1, Append(keys, k.v.str),
                                   Append(vals, e.v))
            ELSE IF toks[e.next] = "}"
                 THEN [ok |-> TRUE,
                       v |-> [ty |-> "obj", keys |-> Append(keys, k.v.str),
                              vals |-> Append(vals, e.v)],
                       next |-> e.next + 1]
            ELSE Fail
        Key(k) ==
            IF ~k.ok \/ k.next > Len(toks) \/ toks[k.next] # ":" THEN Fail
            ELSE After(k, ParseValue(toks, k.next + 1))
    IN  Key(ParseString(toks, i))

ParseValue(toks, i) ==
    IF i > Len(toks) THEN Fail
    ELSE IF toks[i] = QUOTE THEN ParseString(toks, i)
    ELSE IF toks[i] = "null" THEN [ok |-> TRUE, v |-> [ty |-> "null"], next |-> i + 1]
    ELSE IF IsNumeral(toks[i])
         THEN [ok |-> TRUE, v |-> [ty |-> "num", num |-> parseInt(toks[i])], next |-> i + 1]
    ELSE IF toks[i] = "["
         THEN IF i + 1 <= Len(toks) /\ toks[i + 1] = "]"
              THEN [ok |-> TRUE, v |-> [ty |-> "arr", items |-> <<>>], next |-> i + 2]
              ELSE ParseItems(toks, i + 1, <<>>)
    ELSE IF toks[i] = "{"
         THEN IF i + 1 <= Len(toks) /\ toks[i + 1] = "}"
              THEN [ok |-> TRUE, v |-> [ty |-> "obj", keys |-> <<>>, vals |-> <<>>],
                    next |-> i + 2]
              ELSE ParseMembers(toks, i + 1, <<>>, <<>>)
    ELSE Fail

\* JSON.parse(json): the whole text must be one value.
JSONparse(json) ==
    LET Whole(r) == IF r.ok /\ r.next = Len(json) + 1 THEN r ELSE Fail
    IN  Whole(ParseValue(json, 1))


----------------------------------------------------------------------------
(* The updates the reconciler is run on: what parseMessage returns for a   *)
(* handful of Marvel Rivals messages about three players: two of one day   *)
(* for one player, an older and a newer one for another, the newer with    *)
(* the close delimiter of the state block as its date text, and one whose  *)
(* date leaves the Date range.                                             *)

UpdateForms ==
    {Form(<<"LB_UPDATE_MR:">>, <<"@", "Turbo">>, <<"Duelist">>, G(<<"Diamond">>, "2", ""),
          G(<<"Eternity">>, "1", ""), <<"yesterday">>),
     Form(<<"LB_UPDATE_MR:">>, <<"@", "TURBO">>, <<"Tank">>, G(<<"Gold">>, "1", ""),
          G(<<"Gold">>, "1", ""), <<"yesterday">>),
     Form(<<"LB_UPDATE_MR:">>, <<"@", "Alpha">>, <<"Duelist">>, G(<<"Gold">>, "3", ""),
          G(<<"Diamond">>, "2", ""), <<"3", SP, "days", SP, "ago">>),
     Form(<<"LB_UPDATE_MR:">>, <<"@", "Alpha">>, <<"Tank">>, G(<<"Celestial">>, "1", ""),
          G(<<"Celestial">>, "1", ""), <<"-->">>),
     Form(<<"LB_UPDATE_MR:">>, <<"@", "Star">>, <<"Duelist">>, G(<<"Gold">>, "1", ""),
          G(<<"Gold">>, "1", ""), <<"400000", SP, "years", SP, "ago">>)}

Updates == {parseMessage(Content(f), NowT) : f \in UpdateForms} \ {Null}

\* The instants a stored timestamp can name: the clock, the start of the
\* day before, three days before, and the epoch.
Instants == {0, NowT, StartOfDay(NowT) - DaySeconds, NowT - 3 * DaySeconds}

\* new Date(str) for a string read back from the state: a timestamp that
\* toISOString wrote, or a text as for parseDate.
NewDateFromString(str) ==
    LET Named(ts) == IF Len(str) = 1 /\ ts # {} THEN DateAt(CHOOSE t \in ts : TRUE)
                     ELSE DateParseText(str)
    IN  Named({t \in Instants : str = <<toISOString(t)>>})

----------------------------------------------------------------------------
(* storage.js: encodeState, decodeState, upsertPlayer *)

STATE_OPEN == "<!--STATE:"
STATE_CLOSE == "-->"

\* String.prototype.indexOf(a, from) for a one-atom needle: 0 for -1.
IndexOf(text, a, from) ==
    IF \E j \in from..Len(text) : text[j] = a
    THEN CHOOSE j \in from..Len(text) :
            text[j] = a /\ \A k \in from..(j - 1) : text[k] # a
    ELSE 0

\* encodeState(state): the parameter is the first argument of the call.
encodeState(st) == <<STATE_OPEN>> \o JSONstringify(st) \o <<STATE_CLOSE>>

EmptyState == [kind |-> "roster", players |-> <<>>]

\* The value of property key of the parsed object o: the last member of
\* that name.
Member(o, key) ==
    o.vals[CHOOSE i \in 1..Len(o.keys) :
        o.keys[i] = <<key>> /\ \A j \in (i + 1)..Len(o.keys) : o.keys[j] # <<key>>]

HasMember(o, key) == \E i \in 1..Len(o.keys) : o.keys[i] = <<key>>

\* p.date ? new Date(p.date) : new Date()
RestoreDate(p, now) ==
    LET Of(d) ==
            CASE d.ty = "str" -> IF d.str = <<>> THEN DateAt(now)
                                 ELSE NewDateFromString(d.str)
              [] d.ty = "num" -> IF d.num = 0 THEN DateAt(now) ELSE DateAt(d.num)
              [] d.ty = "null" -> DateAt(now)
              [] OTHER -> InvalidDate
    IN  IF p.ty # "obj" \/ ~HasMember(p, "date") THEN DateAt(now)
        ELSE Of(Member(p, "date"))

\* A property value as the model holds it: a string as its atoms (the game
\* as its one atom), a number as itself, anything else as parsed.
FieldValue(key, v) ==
    CASE v.ty = "str" -> IF key = "game" /\ Len(v.str) = 1 THEN v.str[1] ELSE v.str
      [] v.ty = "num" -> v.num
      [] OTHER -> v

\* ({...p, date: ...}) for an element p of parsed.players that is not null;
\* an element that is no object has no property of its own to spread.
RestorePlayer(p, now) ==
    LET keys == IF p.ty = "obj" THEN {p.keys[i][1] : i \in 1..Len(p.keys)} ELSE {}
    IN  [key \in keys \cup {"date"} |->
            IF key = "date" THEN RestoreDate(p, now)
            ELSE FieldValue(key, Member(p, key))]

\* decodeState(messageContent), the clock reading now.  The result is
\* [kind |-> "roster", players] for an object whose players is an array,
\* [kind |-> "object", json] for any other object and [kind |-> "other",
\* json] for a value that is no object.
decodeState(c, now) ==
    LET Restored(items) ==
            IF \E i \in 1..Len(items) : items[i].ty = "null" THEN EmptyState
            ELSE [kind |-> "roster",
                  players |-> [i \in 1..Len(items) |-> RestorePlayer(items[i], now)]]
        Players(value, ps) ==
            IF ps.ty # "arr" THEN [kind |-> "object", json |-> value]
            ELSE Restored(ps.items)
        Read(r) ==
            IF ~r.ok THEN EmptyState
            ELSE IF r.v.ty = "null" THEN EmptyState
            ELSE IF r.v.ty # "obj" THEN [kind |-> "other", json |-> r.v]
            ELSE IF ~HasMember(r.v, "players") THEN [kind |-> "object", json |-> r.v]
            ELSE Players(r.v, Member(r.v, "players"))
        Closed(jsonStart, end) ==
            IF end = 0 THEN EmptyState
            ELSE Read(JSONparse(SubSeq(c.text, jsonStart, end - 1)))
        Opened(start) ==
            IF start = 0 THEN EmptyState
            ELSE Closed(start + 1, IndexOf(c.text, STATE_CLOSE, start + 1))
    IN  IF ~c.isText \/ c.text = <<>> THEN EmptyState
        ELSE Opened(IndexOf(c.text, STATE_OPEN, 1))

\* serialisePlayer(data), the clock reading now: [threw, player]; toISOString
\* of an Invalid Date throws a RangeError.
serialisePlayer(d, now) ==
    CASE d.date.kind = "Date" ->
            [threw |-> FALSE,
             player |-> [d EXCEPT !.date = DateString(<<toISOString(d.date.t)>>)]]
      [] d.date.kind = "Invalid" -> [threw |-> TRUE, player |-> d]
      [] OTHER ->
            [threw |-> FALSE,
             player |-> [d EXCEPT !.date = DateString(<<toISOString(now)>>)]]

\* new Date(x) for the date x of a record or an update.
NewDate(x) ==
    CASE x.kind \in {"Date", "Invalid"} -> x
      [] x.kind = "string" -> NewDateFromString(x.s)
      [] OTHER -> InvalidDate

\* A comparison that never finds a date earlier: upsertPlayer without its
\* stale check.
DateBeforeNever(a, b) == FALSE

\* A stale check that also rejects an update of the stored event time.
DateBeforeOrEqual(a, b) == a.kind = "Date" /\ b.kind = "Date" /\ a.t <= b.t

\* a < b for two Dates: false when either is invalid.
DateBefore(a, b) == a.kind = "Date" /\ b.kind = "Date" /\ a.t < b.t

\* findIndex comparing the names as written, letter case included.
FindIndexExact(ps, name) ==
    IF \E i \in 1..Len(ps) : ps[i].playerName = name
    THEN CHOOSE i \in 1..Len(ps) :
            ps[i].playerName = name /\ \A j \in 1..(i - 1) : ps[j].playerName # name
    ELSE 0

\* players.findIndex(p => p.playerName.toLowerCase() === ...): 0 for -1
FindIndex(ps, name) ==
    IF \E i \in 1..Len(ps) : toLowerCase(ps[i].playerName) = toLowerCase(name)
    THEN CHOOSE i \in 1..Len(ps) :
            /\ toLowerCase(ps[i].playerName) = toLowerCase(name)
            /\ \A j \in 1..(i - 1) : toLowerCase(ps[j].playerName) # toLowerCase(name)
    ELSE 0

\* Whether findIndex reaches an element without a playerName string before
\* it finds a match: undefined.toLowerCase() is a TypeError.
FindThrows(ps, name) ==
    \E i \in 1..Len(ps) :
        /\ "playerName" \notin DOMAIN ps[i]
        /\ \A j \in 1..(i - 1) :
              toLowerCase(ps[j].playerName) # toLowerCase(name)

\* A field-level merge: the update written over the record, the role of the
\* record kept.
ReplacementMerged(existing, d, now) ==
    LET r == serialisePlayer(d, now)
    IN  [r EXCEPT !.player = [r.player EXCEPT !.role = existing.role]]

\* The record the update replaces the matched one with.
Replacement(existing, d, now) == serialisePlayer(d, now)

\* upsertPlayer(players, data), the clock reading now: [ret, players], ret
\* one of "true", "false", "throw" and players the array afterwards.
upsertPlayer(ps, d, now) ==
    LET Stored(r) ==
            IF r.threw THEN [ret |-> "throw", players |-> ps]
            ELSE [ret |-> "true", players |-> Append(ps, r.player)]
        Replaced(idx, r) ==
            IF r.threw THEN [ret |-> "throw", players |-> ps]
            ELSE [ret |-> "true", players |-> [ps EXCEPT ![idx] = r.player]]
        Compared(idx, existing, existingDate, incomingDate) ==
            IF DateBefore(incomingDate, existingDate)
            THEN [ret |-> "false", players |-> ps]
            ELSE Replaced(idx, Replacement(existing, d, now))
        Existing(idx, existing) ==
            Compared(idx, existing,
                     IF existing.date.kind = "absent" THEN DateAt(0)
                     ELSE NewDate(existing.date),
                     NewDate(d.date))
        Found(idx) ==
            IF idx = 0 THEN Stored(serialisePlayer(d, now))
            ELSE Existing(idx, ps[idx])
    IN  IF FindThrows(ps, d.playerName) THEN [ret |-> "throw", players |-> ps]
        ELSE Found(FindIndex(ps, d.playerName))


----------------------------------------------------------------------------
(* The reconciler's use of the storage functions (sync.js, processGame):   *)
(* the state text of the state message is decoded, updates are upserted    *)
(* into the roster, the roster is encoded and written back.                *)

\* The display text a state block is sent with.
DisplayText == <<"##", SP, "Leaderboard", "\n">>

\* The texts a state message is found with before anything was saved: no
\* content, the empty text, texts without a complete block and blocks whose
\* payload is no roster.
InitialContents ==
    {[isText |-> FALSE, text |-> <<>>],
     [isText |-> TRUE, text |-> <<>>],
     [isText |-> TRUE, text |-> DisplayText],
     [isText |-> TRUE, text |-> <<STATE_OPEN, "{">>],
     [isText |-> TRUE, text |-> <<STATE_OPEN, "{", "oops", STATE_CLOSE>>],
     [isText |-> TRUE, text |-> <<STATE_OPEN, "null", STATE_CLOSE>>],
     [isText |-> TRUE, text |-> <<STATE_OPEN, "{", "}", STATE_CLOSE>>],
     [isText |-> TRUE, text |-> <<STATE_OPEN, QUOTE, "X", QUOTE, STATE_CLOSE>>]}

Games == {"MARVEL_RIVALS", "OVERWATCH", "DEADLOCK"}

Embeddings == {"alone", "after"}

Embed(w, block) ==
    CASE w = "after" -> DisplayText \o block
      [] OTHER -> block

\* No parser run: msg, parsed and ppc at rest.
Init ==
    /\ msg = MRBody
    /\ parsed = Null
    /\ ppc = "idle"
    /\ players = <<>>
    /\ state = [kind |-> "none"]
    /\ content \in InitialContents
    /\ origin = "found"
    /\ saved = <<>>
    /\ op = [name |-> "none", ret |-> "none"]
    /\ data = Null
    /\ prev = <<>>
    /\ gameType = "none"
    /\ sorted = <<>>
    /\ updates = <<>>
    /\ cursor = 0
    /\ deleted = {}
    /\ rpc = "idle"
    /\ inbox = <<>>
    /\ byGame = <<>>
    /\ stateMsgs = <<>>
    /\ log = <<>>
    /\ del = [pc |-> "idle"]
    /\ rtc = [pc |-> "idle"]

\* const state = decodeState(stateMsg.content); the caller goes on with
\* state.players, the array upsertPlayer changes in place: the model holds
\* it in players and the rest of the value in state.
Decode ==
    LET st == decodeState(content, NowT)
    IN  /\ state' = IF st.kind = "roster" THEN [kind |-> "roster"] ELSE st
        /\ players' = IF st.kind = "roster" THEN st.players ELSE <<>>
        /\ op' = [name |-> "decodeState", ret |-> st.kind]
        /\ data' = Null
        /\ prev' = <<>>
        /\ UNCHANGED <<auxVars, content, origin, saved, parserVars, runVars>>

\* upsertPlayer(state.players, data)
Upsert ==
    \E u \in Updates :
        LET r == upsertPlayer(players, u, NowT)
        IN  /\ players' = r.players
            /\ op' = [name |-> "upsertPlayer", ret |-> r.ret]
            /\ data' = u
            /\ prev' = players
            /\ UNCHANGED <<auxVars, state, content, origin, saved, parserVars, runVars>>

\* encodeState({ players }), the block sent alone or with the display text
Encode ==
    \E w \in Embeddings :
        /\ content' = [isText |-> TRUE,
                       text |-> Embed(w, encodeState([kind |-> "roster",
                                                      players |-> players]))]
        /\ origin' = "encodeState"
        /\ saved' = players
        /\ op' = [name |-> "encodeState", ret |-> w]
        /\ data' = Null
        /\ prev' = <<>>
        /\ UNCHANGED <<auxVars, players, state, parserVars, runVars>>

\* encodeState(gameType, { players: state.players }), the call of
\* processGame: the function has one parameter.
EncodeGame ==
    \E g \in Games :
        /\ content' = [isText |-> TRUE,
                       text |-> encodeState([kind |-> "string", str |-> <<g>>])]
        /\ origin' = "encodeStateGame"
        /\ saved' = players
        /\ op' = [name |-> "encodeStateGame", ret |-> g]
        /\ data' = Null
        /\ prev' = <<>>
        /\ UNCHANGED <<auxVars, players, state, parserVars, runVars>>

Next == Decode \/ Upsert \/ Encode \/ EncodeGame

Spec == Init /\ [][Next]_vars

----------------------------------------------------------------------------
(* renderer.js: the three sort functions.  A comparator returns a number;  *)
(* the records the program sorts hold finite numbers and dates that name   *)
(* an instant.                                                             *)

\* rankIndex(rankName, rankList): the position from 0, -1 when not found
rankIndex(rankName, rankList) ==
    LET Found(ks) == IF ks = {} THEN -1
                     ELSE (CHOOSE k \in ks : \A j \in ks : k <= j) - 1
        Find(lower) == Found({k \in 1..Len(rankList) : toLowerCase(rankList[k]) = lower})
    IN  Find(toLowerCase(rankName))

\* A date comparison that answers whether a is older than b with 1 or 0,
\* never a negative number.
DateDiffBool(a, b) ==
    IF NewDate(a.date).kind = "Date" /\ NewDate(b.date).kind = "Date"
       /\ NewDate(a.date).t < NewDate(b.date).t
    THEN 1 ELSE 0

\* new Date(b.date) - new Date(a.date), in seconds; NaN, which sort takes
\* for 0, when a date names no instant.
DateDiff(a, b) ==
    IF NewDate(a.date).kind = "Date" /\ NewDate(b.date).kind = "Date"
    THEN NewDate(b.date).t - NewDate(a.date).t
    ELSE 0

\* The comparator of sortMarvelRivals without its peak keys.
cmpMarvelRivalsNoPeak(a, b) ==
    LET Tier(tierDiff) == IF tierDiff # 0 THEN tierDiff ELSE DateDiff(a, b)
        Rank(rankDiff) ==
            IF rankDiff # 0 THEN rankDiff ELSE Tier(a.tierCurrent - b.tierCurrent)
    IN  Rank(rankIndex(b.rankCurrent, MR_RANKS) - rankIndex(a.rankCurrent, MR_RANKS))

\* The comparator of sortMarvelRivals
cmpMarvelRivals(a, b) ==
    LET PeakTier(peakTierDiff) ==
            IF peakTierDiff # 0 THEN peakTierDiff ELSE DateDiff(a, b)
        PeakRank(peakRankDiff) ==
            IF peakRankDiff # 0 THEN peakRankDiff
            ELSE PeakTier(a.tierPeak - b.tierPeak)
        Tier(tierDiff) ==
            IF tierDiff # 0 THEN tierDiff
            ELSE PeakRank(rankIndex(b.rankPeak, MR_RANKS) - rankIndex(a.rankPeak, MR_RANKS))
        Rank(rankDiff) ==
            IF rankDiff # 0 THEN rankDiff ELSE Tier(a.tierCurrent - b.tierCurrent)
    IN  Rank(rankIndex(b.rankCurrent, MR_RANKS) - rankIndex(a.rankCurrent, MR_RANKS))

\* The comparator of sortOverwatch with the Top 500 placements compared the
\* other way round.
cmpOverwatchPlacementDesc(a, b) ==
    LET PeakTier(peakTierDiff) ==
            IF peakTierDiff # 0 THEN peakTierDiff ELSE DateDiff(a, b)
        PeakRank(peakRankDiff) ==
            IF peakRankDiff # 0 THEN peakRankDiff
            ELSE PeakTier(a.tierPeak - b.tierPeak)
        Tier(diff) ==
            IF diff # 0 THEN diff
            ELSE PeakRank(rankIndex(b.rankPeak, OW_RANKS) - rankIndex(a.rankPeak, OW_RANKS))
        Rank(rankDiff) ==
            IF rankDiff # 0 THEN rankDiff
            ELSE IF a.rankCurrent = TOP500 /\ b.rankCurrent = TOP500
                 THEN Tier(b.tierCurrent - a.tierCurrent)
                 ELSE Tier(a.tierCurrent - b.tierCurrent)
    IN  Rank(rankIndex(b.rankCurrent, OW_RANKS) - rankIndex(a.rankCurrent, OW_RANKS))

\* The comparator of sortOverwatch: top500Diff and tierDiff are the same
\* difference, taken in the two branches of the Top 500 test.
cmpOverwatch(a, b) ==
    LET PeakTier(peakTierDiff) ==
            IF peakTierDiff # 0 THEN peakTierDiff ELSE DateDiff(a, b)
        PeakRank(peakRankDiff) ==
            IF peakRankDiff # 0 THEN peakRankDiff
            ELSE PeakTier(a.tierPeak - b.tierPeak)
        Tier(diff) ==
            IF diff # 0 THEN diff
            ELSE PeakRank(rankIndex(b.rankPeak, OW_RANKS) - rankIndex(a.rankPeak, OW_RANKS))
        Rank(rankDiff) ==
            IF rankDiff # 0 THEN rankDiff
            ELSE IF a.rankCurrent = TOP500 /\ b.rankCurrent = TOP500
                 THEN Tier(a.tierCurrent - b.tierCurrent)
                 ELSE Tier(a.tierCurrent - b.tierCurrent)
    IN  Rank(rankIndex(b.rankCurrent, OW_RANKS) - rankIndex(a.rankCurrent, OW_RANKS))

\* The comparator of sortDeadlock with the tiers compared as in the other
\* two games, the lower first.
cmpDeadlockTierAsc(a, b) ==
    LET Value(valueDiff) == IF valueDiff # 0 THEN valueDiff ELSE DateDiff(a, b)
        Tier(tierDiff) ==
            IF tierDiff # 0 THEN tierDiff ELSE Value(a.currentValue - b.currentValue)
        Rank(rankDiff) ==
            IF rankDiff # 0 THEN rankDiff ELSE Tier(a.tierCurrent - b.tierCurrent)
    IN  Rank(rankIndex(b.rankCurrent, DL_RANKS) - rankIndex(a.rankCurrent, DL_RANKS))

\* The comparator of sortDeadlock
cmpDeadlock(a, b) ==
    LET Value(valueDiff) == IF valueDiff # 0 THEN valueDiff ELSE DateDiff(a, b)
        Tier(tierDiff) ==
            IF tierDiff # 0 THEN tierDiff ELSE Value(a.currentValue - b.currentValue)
        Rank(rankDiff) ==
            IF rankDiff # 0 THEN rankDiff ELSE Tier(b.tierCurrent - a.tierCurrent)
    IN  Rank(rankIndex(b.rankCurrent, DL_RANKS) - rankIndex(a.rankCurrent, DL_RANKS))

\* The comparator of the sort function of game g.
Compare(g, a, b) ==
    CASE g = "MARVEL_RIVALS" -> cmpMarvelRivals(a, b)
      [] g = "OVERWATCH" -> cmpOverwatch(a, b)
      [] OTHER -> cmpDeadlock(a, b)

RECURSIVE SortFrom(_, _, _, _)

\* Array.prototype.sort with the comparator of g: a stable sort.  The
\* elements of arr from index i on are inserted one by one into acc, each
\* behind the last element that does not compare greater than it.
SortFrom(g, arr, i, acc) ==
    IF i > Len(arr) THEN acc
    ELSE LET Put(j) == SubSeq(acc, 1, j) \o <<arr[i]>> \o SubSeq(acc, j + 1, Len(acc))
             After(js) == IF js = {} THEN Put(0)
                          ELSE Put(CHOOSE j \in js : \A m \in js : m <= j)
         IN  SortFrom(g, arr, i + 1,
                      After({j \in 1..Len(acc) : Compare(g, acc[j], arr[i]) <= 0}))

ArraySort(g, arr) == SortFrom(g, arr, 1, <<>>)

\* players.sort(...) without the copy: the array handed in is sorted.
sortMarvelRivalsInPlace(ps) ==
    [players |-> ArraySort("MARVEL_RIVALS", ps), ret |-> ArraySort("MARVEL_RIVALS", ps)]

\* sortMarvelRivals(players): [...players].sort(...) sorts a copy; the
\* result is [players, ret], the array handed in afterwards and the array
\* returned.
sortMarvelRivals(ps) == [players |-> ps, ret |-> ArraySort("MARVEL_RIVALS", ps)]

sortOverwatch(ps) == [players |-> ps, ret |-> ArraySort("OVERWATCH", ps)]

sortDeadlock(ps) == [players |-> ps, ret |-> ArraySort("DEADLOCK", ps)]

\* CONFIG.games[g].sortFn(ps)
sortFn(g, ps) ==
    CASE g = "MARVEL_RIVALS" -> sortMarvelRivals(ps)
      [] g = "OVERWATCH" -> sortOverwatch(ps)
      [] OTHER -> sortDeadlock(ps)

----------------------------------------------------------------------------
(* The rosters the sort functions are run on: up to MaxRoster records of   *)
(* one game, named by their place in the roster.  A date is a Date (a      *)
(* record read back by decodeState) or a timestamp text (a record upserted *)
(* in the run).                                                            *)

\* The comparison keys of the records of game g.  Each key takes two
\* values, the one that sorts first chosen by 0.  The choices set two
\* records apart at one key and, the other way round, at every key behind
\* it: for each key, the keys before it at their first value, the key at
\* either value and the keys behind it at the opposite one; and every key
\* at its second value.
SortKeys(g) ==
    LET Choices(n) ==
            {[i \in 1..n |-> IF i < k THEN 0 ELSE IF i = k THEN b ELSE 1 - b] :
                k \in 1..n, b \in {0, 1}}
            \cup {[i \in 1..n |-> 1]}
        Date(b) == IF b = 0 THEN DateString(<<toISOString(NowT)>>)
                   ELSE DateAt(NowT - DaySeconds)
    IN  CASE g = "MARVEL_RIVALS" ->
            {[rankCurrent |-> IF c[1] = 0 THEN <<"One", SP, "Above", SP, "All">>
                              ELSE <<"Eternity">>,
              tierCurrent |-> IF c[2] = 0 THEN 1 ELSE 2,
              rankPeak |-> IF c[3] = 0 THEN <<"One", SP, "Above", SP, "All">>
                           ELSE <<"Eternity">>,
              tierPeak |-> IF c[4] = 0 THEN 1 ELSE 3,
              date |-> Date(c[5])] : c \in Choices(5)}
      [] g = "OVERWATCH" ->
            {[rankCurrent |-> IF c[1] = 0 THEN TOP500 ELSE <<"Champion">>,
              tierCurrent |-> IF c[1] = 0 THEN (IF c[2] = 0 THEN 50 ELSE 200)
                              ELSE (IF c[2] = 0 THEN 1 ELSE 2),
              currentValue |-> 3200,
              rankPeak |-> IF c[3] = 0 THEN TOP500 ELSE <<"Champion">>,
              tierPeak |-> IF c[3] = 0 THEN (IF c[4] = 0 THEN 50 ELSE 200)
                           ELSE (IF c[4] = 0 THEN 1 ELSE 2),
              peakValue |-> 3200,
              date |-> Date(c[5])] : c \in Choices(5)}
      [] OTHER ->
            {[rankCurrent |-> IF c[1] = 0 THEN <<"Eternus">> ELSE <<"Archon">>,
              tierCurrent |-> IF c[2] = 0 THEN 6 ELSE 4,
              currentValue |-> IF c[3] = 0 THEN 900 ELSE 1200,
              date |-> Date(c[4])] : c \in Choices(4)}

\* The record with keys k at place i of a roster of game g, named by its
\* place.
SortRecord(g, i, k) ==
    IF g = "DEADLOCK"
    THEN [game |-> g, playerName |-> <<"P" \o ToString(i)>>, hero |-> <<"Haze">>,
          rankCurrent |-> k.rankCurrent, tierCurrent |-> k.tierCurrent,
          currentValue |-> k.currentValue, date |-> k.date, dateRaw |-> <<"now">>]
    ELSE IF g = "OVERWATCH"
    THEN [game |-> g, playerName |-> <<"P" \o ToString(i)>>, role |-> <<"Tank">>,
          rankCurrent |-> k.rankCurrent, tierCurrent |-> k.tierCurrent,
          currentValue |-> k.currentValue, rankPeak |-> k.rankPeak,
          tierPeak |-> k.tierPeak, peakValue |-> k.peakValue,
          date |-> k.date, dateRaw |-> <<"now">>]
    ELSE [game |-> g, playerName |-> <<"P" \o ToString(i)>>, role |-> <<"Duelist">>,
          rankCurrent |-> k.rankCurrent, tierCurrent |-> k.tierCurrent,
          rankPeak |-> k.rankPeak, tierPeak |-> k.tierPeak,
          date |-> k.date, dateRaw |-> <<"now">>]

MaxRoster == 3

SortRosters(g) ==
    UNION {{[i \in 1..n |-> SortRecord(g, i, ks[i])] : ks \in [1..n -> SortKeys(g)]} :
            n \in 0..MaxRoster}

\* One call of the sort function of a game on a roster.
SortInit ==
    /\ msg = MRBody
    /\ parsed = Null
    /\ ppc = "idle"
    /\ gameType \in Games
    /\ players \in SortRosters(gameType)
    /\ state = [kind |-> "roster"]
    /\ content = [isText |-> FALSE, text |-> <<>>]
    /\ origin = "none"
    /\ saved = <<>>
    /\ op = [name |-> "none", ret |-> "none"]
    /\ data = Null
    /\ prev = <<>>
    /\ sorted = <<>>
    /\ updates = <<>>
    /\ cursor = 0
    /\ deleted = {}
    /\ rpc = "sort"
    /\ inbox = <<>>
    /\ byGame = <<>>
    /\ stateMsgs = <<>>
    /\ log = <<>>
    /\ del = [pc |-> "idle"]
    /\ rtc = [pc |-> "idle"]

\* const sorted = cfg.sortFn(state.players)
Sort ==
    /\ rpc = "sort"
    /\ players' = sortFn(gameType, players).players
    /\ sorted' = sortFn(gameType, players).ret
    /\ prev' = players
    /\ op' = [name |-> "sortFn", ret |-> gameType]
    /\ rpc' = "sorted"
    /\ UNCHANGED <<auxVars, state, content, origin, saved, data, parserVars,
                   gameType, updates, cursor, deleted>>

SortNext == Sort

SpecSort == SortInit /\ [][SortNext]_vars

----------------------------------------------------------------------------
(* sync.js: processGame(gameType, updates), one step for each stretch      *)
(* between two awaits.  The state message, the source messages and the     *)
(* webhook are reached through discord.js, whose calls succeed or fail:    *)
(* fetchStateMessage returns the state message or throws, deleteMessage    *)
(* returns true or false, the webhook and state writes return or throw.    *)
(* content is the content of the state message of the game.                *)

\* The record serialisePlayer stores for the update of message f.
StoredOf(f) == serialisePlayer(parseMessage(Content(f), NowT), NowT).player

\* The batches main hands to processGame for game g: the updates parsed
\* from one or two messages of the game, in arrival order.
Batches(g) ==
    CASE g = "MARVEL_RIVALS" ->
            {<<u>> : u \in Updates} \cup {<<u, v>> : u \in Updates, v \in Updates}
      [] g = "OVERWATCH" ->
            {<<parseMessage(Content([OWBody EXCEPT !.prefix = <<"LB_UPDATE_OW:">>]), NowT)>>}
      [] OTHER ->
            {<<parseMessage(Content([DLBody EXCEPT !.prefix = <<"LB_UPDATE_DL:">>]), NowT)>>}

\* The contents the state message of game g is found with: none, a state
\* block with a roster (for Marvel Rivals the record of Turbo of the day
\* before and a record of Alpha of this instant), and the text an earlier
\* run saved.
RunContents(g) ==
    {[isText |-> FALSE, text |-> <<>>],
     [isText |-> TRUE, text |-> encodeState([kind |-> "roster", players |-> <<>>])],
     [isText |-> TRUE, text |-> encodeState([kind |-> "string", str |-> <<g>>])]}
    \cup
    (IF g # "MARVEL_RIVALS" THEN {}
     ELSE {[isText |-> TRUE,
            text |-> encodeState(
                [kind |-> "roster",
                 players |->
                    <<StoredOf([MRBody EXCEPT !.prefix = <<"LB_UPDATE_MR:">>]),
                      [StoredOf([MRBody EXCEPT !.prefix = <<"LB_UPDATE_MR:">>,
                                               !.name = <<"@", "Alpha">>])
                          EXCEPT !.date = DateString(<<toISOString(NowT)>>),
                                 !.dateRaw = <<"now">>]>>])]})

RunInit ==
    /\ msg = MRBody
    /\ parsed = Null
    /\ ppc = "idle"
    /\ gameType \in Games
    /\ updates \in Batches(gameType)
    /\ content \in RunContents(gameType)
    /\ players = <<>>
    /\ state = [kind |-> "none"]
    /\ origin = "found"
    /\ saved = <<>>
    /\ op = [name |-> "none", ret |-> "none"]
    /\ data = Null
    /\ prev = <<>>
    /\ sorted = <<>>
    /\ cursor = 1
    /\ deleted = {}
    /\ rpc = "load"
    /\ inbox = <<>>
    /\ byGame = <<>>
    /\ stateMsgs = <<>>
    /\ log = <<>>
    /\ del = [pc |-> "idle"]
    /\ rtc = [pc |-> "idle"]

\* The step after the update at cursor: the next update or, behind the
\* last, the sort.
AfterUpdate == IF cursor < Len(updates) THEN "upsert" ELSE "publish"

\* 3a: fetchStateMessage (stateMsg stays null when it throws), decodeState,
\* and the log line that reads state.players.length: a TypeError, which
\* ends the run, when the decoded value has no players.
LoadState ==
    /\ rpc = "load"
    /\ \E fetched \in BOOLEAN :
          LET st == decodeState(IF fetched THEN content
                                ELSE [isText |-> FALSE, text |-> <<>>], NowT)
          IN  /\ state' = IF st.kind = "roster" THEN [kind |-> "roster"] ELSE st
              /\ players' = IF st.kind = "roster" THEN st.players ELSE <<>>
              /\ rpc' = IF st.kind = "roster" THEN "upsert" ELSE "crashed"
              /\ op' = [name |-> "decodeState", ret |-> st.kind]
    /\ UNCHANGED <<auxVars, content, origin, saved, data, prev, parserVars,
                   gameType, sorted, updates, cursor, deleted>>

\* 3b, first half: upsertPlayer(state.players, data); a throw is caught,
\* counted and the message left where it is.
ApplyUpdate ==
    /\ rpc = "upsert"
    /\ players' = upsertPlayer(players, updates[cursor], NowT).players
    /\ op' = [name |-> "upsertPlayer",
              ret |-> upsertPlayer(players, updates[cursor], NowT).ret]
    /\ data' = updates[cursor]
    /\ prev' = players
    /\ rpc' = IF op'.ret = "throw" THEN AfterUpdate ELSE "delete"
    /\ cursor' = IF op'.ret = "throw" THEN cursor + 1 ELSE cursor
    /\ UNCHANGED <<auxVars, state, content, origin, saved, parserVars,
                   gameType, sorted, updates, deleted>>

\* 3b, second half: const deleted = await deleteMessage(msg)
DeleteSource ==
    /\ rpc = "delete"
    /\ \E gone \in BOOLEAN :
          /\ deleted' = IF gone THEN deleted \cup {cursor} ELSE deleted
          /\ op' = [name |-> "deleteMessage", ret |-> IF gone THEN "true" ELSE "false"]
    /\ rpc' = AfterUpdate
    /\ cursor' = cursor + 1
    /\ UNCHANGED <<auxVars, players, state, content, origin, saved, data, prev, parserVars,
                   gameType, sorted, updates>>

\* 3c and 3d: the roster is sorted and rendered, the webhook message
\* edited or posted; a failure is caught and counted.
PublishBoard ==
    /\ rpc = "publish"
    /\ players' = sortFn(gameType, players).players
    /\ sorted' = sortFn(gameType, players).ret
    /\ \E sent \in BOOLEAN :
          op' = [name |-> "publish", ret |-> IF sent THEN "sent" ELSE "throw"]
    /\ rpc' = "save"
    /\ UNCHANGED <<auxVars, state, content, origin, saved, data, prev, parserVars,
                   gameType, updates, cursor, deleted>>

\* 3e: encodeState(gameType, { players: state.players }) and the write of
\* the state message (updated when it was fetched, created otherwise); a
\* failure is caught and counted.  encodeState has one parameter: it
\* encodes gameType.  op.text is the text handed to the write.
SaveState ==
    /\ rpc = "save"
    /\ \E written \in BOOLEAN :
          /\ content' = IF written
                        THEN [isText |-> TRUE,
                              text |-> encodeState([kind |-> "string",
                                                    str |-> <<gameType>>])]
                        ELSE content
          /\ origin' = IF written THEN "encodeStateGame" ELSE origin
          /\ op' = [name |-> "save", ret |-> IF written THEN "written" ELSE "throw",
                    text |-> encodeState([kind |-> "string", str |-> <<gameType>>])]
    /\ saved' = players
    /\ rpc' = "done"
    /\ UNCHANGED <<auxVars, players, state, data, prev, parserVars,
                   gameType, sorted, updates, cursor, deleted>>

\* The run is stopped from outside while it waits.
AbortRun ==
    /\ rpc \in {"load", "upsert", "delete", "publish", "save"}
    /\ rpc' = "aborted"
    /\ UNCHANGED <<auxVars, players, state, content, origin, saved, op, data, prev,
                   parserVars, gameType, sorted, updates, cursor, deleted>>

RunNext ==
    LoadState \/ ApplyUpdate \/ DeleteSource \/ PublishBoard \/ SaveState \/ AbortRun

SpecRun == RunInit /\ [][RunNext]_vars

----------------------------------------------------------------------------
(* Two runs over the same inputs: the batch is upserted into the roster    *)
(* loaded from the state message, the roster goes through encodeState and  *)
(* decodeState, and the same batch is upserted again.                      *)

\* (decodeState(content)).players of a content that holds a roster
RosterOf(c) ==
    LET Players(st) == IF st.kind = "roster" THEN st.players ELSE <<>>
    IN  Players(decodeState(c, NowT))

\* The updates of the batches: those of the reconciler and one more of
\* Alpha, of the day before.
BatchUpdates ==
    Updates \cup
    {parseMessage(Content(Form(<<"LB_UPDATE_MR:">>, <<"@", "alpha">>, <<"Vanguard">>,
                               G(<<"Silver">>, "2", ""), G(<<"Gold">>, "1", ""),
                               <<"yesterday">>)), NowT)}

MaxBatch == 3

\* The batches of up to MaxBatch updates, in every arrival order.
RerunBatches ==
    UNION {[1..n -> BatchUpdates] : n \in 1..MaxBatch}

RerunInit ==
    /\ msg = MRBody
    /\ parsed = Null
    /\ ppc = "idle"
    /\ gameType = "MARVEL_RIVALS"
    /\ updates \in RerunBatches
    /\ content \in {c \in RunContents("MARVEL_RIVALS") :
                       decodeState(c, NowT).kind = "roster"}
    /\ players = RosterOf(content)
    /\ state = [kind |-> "roster"]
    /\ origin = "found"
    /\ saved = <<>>
    /\ op = [name |-> "decodeState", ret |-> "roster"]
    /\ data = Null
    /\ prev = <<>>
    /\ sorted = <<>>
    /\ cursor = 1
    /\ deleted = {}
    /\ rpc = "first"
    /\ inbox = <<>>
    /\ byGame = <<>>
    /\ stateMsgs = <<>>
    /\ log = <<>>
    /\ del = [pc |-> "idle"]
    /\ rtc = [pc |-> "idle"]

\* upsertPlayer(state.players, data) for the next update of the batch
RerunUpsert ==
    /\ rpc \in {"first", "second"}
    /\ cursor <= Len(updates)
    /\ players' = upsertPlayer(players, updates[cursor], NowT).players
    /\ op' = [name |-> "upsertPlayer",
              ret |-> upsertPlayer(players, updates[cursor], NowT).ret]
    /\ data' = updates[cursor]
    /\ prev' = players
    /\ cursor' = cursor + 1
    /\ UNCHANGED <<auxVars, state, content, origin, saved, parserVars,
                   gameType, sorted, updates, deleted, rpc>>

\* The roster of the first run is saved with encodeState({ players }) and
\* the second run loads it with decodeState; saved is the roster the first
\* run ended with.
RerunReload ==
    /\ rpc = "first"
    /\ cursor > Len(updates)
    /\ content' = [isText |-> TRUE,
                   text |-> encodeState([kind |-> "roster", players |-> players])]
    /\ origin' = "encodeState"
    /\ saved' = players
    /\ players' = RosterOf(content')
    /\ op' = [name |-> "decodeState", ret |-> decodeState(content', NowT).kind]
    /\ data' = Null
    /\ prev' = players
    /\ cursor' = 1
    /\ rpc' = "second"
    /\ UNCHANGED <<auxVars, state, parserVars, gameType, sorted, updates, deleted>>

RerunNext == RerunUpsert \/ RerunReload

SpecRerun == RerunInit /\ [][RerunNext]_vars

----------------------------------------------------------------------------
(* discord.js: deleteMessage(message, retries = 3).  message.delete()      *)
(* resolves or rejects with an error: one with status 429 (rate limited,   *)
(* with or without retryAfter seconds), one with code 10008 (unknown        *)
(* message) or another one.                                                 *)

MaxRetries == 3

RateLimited == {"429", "429 retryAfter 1", "429 retryAfter 5"}

\* What one call of message.delete() ends with.
DeleteOutcomes == {"ok", "10008", "other"} \cup RateLimited

\* (err.retryAfter ?? 2) * 1000, in seconds
RetryAfter(e) ==
    CASE e = "429 retryAfter 1" -> 1
      [] e = "429 retryAfter 5" -> 5
      [] OTHER -> 2

\* The body of the loop with error code 10008 counted as a failure.
deleteAttemptUnknownFails(e, attempt, retries) ==
    CASE e = "ok" -> [pc |-> "done", ret |-> "true", wait |-> 0]
      [] e \in RateLimited -> [pc |-> "sleep", ret |-> "none", wait |-> RetryAfter(e)]
      [] OTHER ->
            IF attempt = retries THEN [pc |-> "done", ret |-> "false", wait |-> 0]
            ELSE [pc |-> "sleep", ret |-> "none", wait |-> attempt]

\* The body of the loop for one attempt whose message.delete() ended with
\* e: where the function goes (returns, or sleeps wait seconds and loops).
deleteAttempt(e, attempt, retries) ==
    CASE e = "ok" -> [pc |-> "done", ret |-> "true", wait |-> 0]
      [] e \in RateLimited -> [pc |-> "sleep", ret |-> "none", wait |-> RetryAfter(e)]
      [] e = "10008" -> [pc |-> "done", ret |-> "true", wait |-> 0]
      [] OTHER ->
            IF attempt = retries THEN [pc |-> "done", ret |-> "false", wait |-> 0]
            ELSE [pc |-> "sleep", ret |-> "none", wait |-> attempt]

DeleteInit ==
    /\ msg = MRBody
    /\ parsed = Null
    /\ ppc = "idle"
    /\ players = <<>>
    /\ state = [kind |-> "none"]
    /\ content = [isText |-> FALSE, text |-> <<>>]
    /\ origin = "none"
    /\ saved = <<>>
    /\ op = [name |-> "none", ret |-> "none"]
    /\ data = Null
    /\ prev = <<>>
    /\ gameType = "none"
    /\ sorted = <<>>
    /\ updates = <<>>
    /\ cursor = 0
    /\ deleted = {}
    /\ rpc = "idle"
    /\ inbox = <<>>
    /\ byGame = <<>>
    /\ stateMsgs = <<>>
    /\ log = <<>>
    /\ \E retries \in 0..MaxRetries :
          del = [pc |-> "loop", retries |-> retries, attempt |-> 1,
                 errs |-> <<>>, wait |-> 0, ret |-> "none"]
    /\ rtc = [pc |-> "idle"]

\* attempt <= retries: await message.delete() and what follows it
DeleteTry ==
    /\ del.pc = "loop"
    /\ del.attempt <= del.retries
    /\ \E e \in DeleteOutcomes :
          del' = [del EXCEPT !.errs = Append(@, e),
                             !.pc = deleteAttempt(e, del.attempt, del.retries).pc,
                             !.ret = deleteAttempt(e, del.attempt, del.retries).ret,
                             !.wait = deleteAttempt(e, del.attempt, del.retries).wait]
    /\ UNCHANGED <<parserVars, storageVars, runVars, inbox, byGame, stateMsgs, log, rtc>>

\* await sleep(...) is over: attempt++
DeleteWake ==
    /\ del.pc = "sleep"
    /\ del' = [del EXCEPT !.pc = "loop", !.attempt = @ + 1, !.wait = 0]
    /\ UNCHANGED <<parserVars, storageVars, runVars, inbox, byGame, stateMsgs, log, rtc>>

\* attempt > retries: the loop is left, return false
DeleteGiveUp ==
    /\ del.pc = "loop"
    /\ del.attempt > del.retries
    /\ del' = [del EXCEPT !.pc = "done", !.ret = "false"]
    /\ UNCHANGED <<parserVars, storageVars, runVars, inbox, byGame, stateMsgs, log, rtc>>

DeleteNext == DeleteTry \/ DeleteWake \/ DeleteGiveUp

SpecDelete == DeleteInit /\ [][DeleteNext]_vars

\* The event loop runs every continuation that is ready: a timer that was
\* set fires, a settled promise resumes the function.
FairDelete == SpecDelete /\ WF_vars(DeleteNext)

----------------------------------------------------------------------------
(* renderer.js: relativeTime(date).  diffMs = Date.now() - d.getTime() is  *)
(* held as whole seconds s and the milliseconds ms left over, 0..999, so   *)
(* that diffMs < 0 is s < 0 and Math.floor(diffMs / 1000) is s.            *)

\* `${n} ${unit}${n === 1 ? '' : 's'} ago`
AgoText(n, unit) ==
    <<ToString(n), SP, IF n = 1 THEN unit ELSE unit \o "s", SP, "ago">>

\* relativeTime of a date diffMs = s * 1000 + ms before the clock reading
relativeTime(s, ms) ==
    LET sec == s
        min == sec \div 60
        hour == min \div 60
        day == hour \div 24
        week == day \div 7
        month == day \div 30
        year == day \div 365
    IN  IF s < 0 THEN <<"just", SP, "now">>
        ELSE IF sec < 10 THEN <<"just", SP, "now">>
        ELSE IF sec < 60 THEN <<ToString(sec), SP, "seconds", SP, "ago">>
        ELSE IF min < 60 THEN AgoText(min, "minute")
        ELSE IF hour < 24 THEN AgoText(hour, "hour")
        ELSE IF day < 7 THEN AgoText(day, "day")
        ELSE IF week < 5 THEN AgoText(week, "week")
        ELSE IF month < 12 THEN AgoText(month, "month")
        ELSE AgoText(year, "year")

MaxElapsedDays == 740

\* The elapsed times relativeTime is called with: a future date, the first
\* minutes and hours around each threshold, and the start and the last
\* second of every day up to MaxElapsedDays.
ElapsedSeconds ==
    {-10, -1, 0, 5, 9, 10, 30, 59, 60, 65, 119, 120, 180, 3599, 3600, 7199, 7200}
    \cup {d * DaySeconds : d \in 0..MaxElapsedDays}
    \cup {d * DaySeconds + (DaySeconds - 1) : d \in 0..MaxElapsedDays}

RelInit ==
    /\ msg = MRBody
    /\ parsed = Null
    /\ ppc = "idle"
    /\ players = <<>>
    /\ state = [kind |-> "none"]
    /\ content = [isText |-> FALSE, text |-> <<>>]
    /\ origin = "none"
    /\ saved = <<>>
    /\ op = [name |-> "none", ret |-> "none"]
    /\ data = Null
    /\ prev = <<>>
    /\ gameType = "none"
    /\ sorted = <<>>
    /\ updates = <<>>
    /\ cursor = 0
    /\ deleted = {}
    /\ rpc = "idle"
    /\ inbox = <<>>
    /\ byGame = <<>>
    /\ stateMsgs = <<>>
    /\ log = <<>>
    /\ del = [pc |-> "idle"]
    /\ \E s \in ElapsedSeconds, ms \in {0, 999} :
          rtc = [pc |-> "call", s |-> s, ms |-> ms, text |-> <<>>]

\* const text = relativeTime(date)
RelativeTime ==
    /\ rtc.pc = "call"
    /\ rtc' = [rtc EXCEPT !.pc = "done", !.text = relativeTime(rtc.s, rtc.ms)]
    /\ UNCHANGED <<parserVars, storageVars, runVars, inbox, byGame, stateMsgs, log, del>>

RelNext == RelativeTime

SpecRel == RelInit /\ [][RelNext]_vars

----------------------------------------------------------------------------
(* sync.js: main.  The listening channel holds messages [id,               *)
(* createdTimestamp, form]; fetchMessages returns them oldest first, the   *)
(* parse loop groups the parsed ones by game, and processGame runs for     *)
(* each game that has updates.  log records what the run does: entries     *)
(* [ev, game, id] with ev one of "load", "upsert", "delete", "publish",    *)
(* "save" and id the message of an upsert or delete (0 otherwise).         *)

\* The collection handed back as it came, without the sort.
fetchMessagesAsFetched(coll) == coll

\* fetchMessages: [...collection.values()].sort((a, b) =>
\* a.createdTimestamp - b.createdTimestamp), a stable sort
fetchMessages(coll) ==
    LET Before(m, acc) == {j \in 1..Len(acc) : acc[j].createdTimestamp <= m.createdTimestamp}
        Place(m, acc, k) == SubSeq(acc, 1, k) \o <<m>> \o SubSeq(acc, k + 1, Len(acc))
        Last(S) == IF S = {} THEN 0 ELSE CHOOSE k \in S : \A j \in S : j <= k
        Insert(m, acc) == Place(m, acc, Last(Before(m, acc)))
        Upto[i \in 0..Len(coll)] == IF i = 0 THEN <<>> ELSE Insert(coll[i], Upto[i - 1])
    IN  Upto[Len(coll)]

\* Every update under the first game.
GroupKeyFirst(update) == "MARVEL_RIVALS"

\* byGame[parsed.game]
GroupKey(update) == update.game

\* Object.entries(byGame)
GameOrder == <<"MARVEL_RIVALS", "OVERWATCH", "DEADLOCK">>

\* The messages of the channel: two Marvel Rivals updates of one player,
\* the second with the older event time, an Overwatch and a Deadlock
\* update, and an update with a tier out of bound.
InboxForms ==
    {[MRBody EXCEPT !.prefix = <<"LB_UPDATE_MR:">>],
     [MRBody EXCEPT !.prefix = <<"LB_UPDATE_MR:">>, !.role = <<"Vanguard">>,
                    !.date = <<"3", SP, "days", SP, "ago">>],
     [OWBody EXCEPT !.prefix = <<"LB_UPDATE_OW:">>],
     [DLBody EXCEPT !.prefix = <<"LB_UPDATE_DL:">>],
     [MRBody EXCEPT !.prefix = <<"LB_UPDATE_MR:">>, !.cur = G(<<"Diamond">>, "7", "")]}

MaxInbox == 3

\* The collections channel.messages.fetch returns: up to MaxInbox messages,
\* newest first or oldest first.
Collections ==
    UNION {{[i \in 1..n |->
                [id |-> i,
                 createdTimestamp |-> IF newestFirst THEN n + 1 - i ELSE i,
                 form |-> forms[i]]] :
              forms \in [1..n -> InboxForms], newestFirst \in BOOLEAN} :
           n \in 1..MaxInbox}

MainInit ==
    /\ msg = MRBody
    /\ parsed = Null
    /\ ppc = "idle"
    /\ players = <<>>
    /\ state = [kind |-> "none"]
    /\ content = [isText |-> FALSE, text |-> <<>>]
    /\ origin = "none"
    /\ saved = <<>>
    /\ op = [name |-> "none", ret |-> "none"]
    /\ data = Null
    /\ prev = <<>>
    /\ gameType = "none"
    /\ sorted = <<>>
    /\ updates = <<>>
    /\ cursor = 0
    /\ deleted = {}
    /\ rpc = "fetch"
    /\ inbox \in Collections
    /\ byGame = <<>>
    /\ stateMsgs = [g \in Games |-> [isText |-> FALSE, text |-> <<>>]]
    /\ log = <<>>
    /\ del = [pc |-> "idle"]
    /\ rtc = [pc |-> "idle"]

\* Step 1: const messages = await fetchMessages(...)
MainFetch ==
    /\ rpc = "fetch"
    /\ inbox' = fetchMessages(inbox)
    /\ rpc' = "parse"
    /\ UNCHANGED <<parserVars, storageVars, gameType, sorted, updates, cursor,
                   deleted, byGame, stateMsgs, log, del, rtc>>

\* Step 2: parse and group by game
MainParse ==
    /\ rpc = "parse"
    /\ LET Parsed(i) == parseMessage(Content(inbox[i].form), NowT)
           All == [i \in 1..Len(inbox) |-> [id |-> inbox[i].id, data |-> Parsed(i)]]
           Of(g) == SelectSeq(All, LAMBDA e : e.data # Null /\ GroupKey(e.data) = g)
       IN  byGame' = [g \in Games |-> Of(g)]
    /\ rpc' = "next"
    /\ UNCHANGED <<parserVars, storageVars, gameType, sorted, updates, cursor,
                   deleted, inbox, stateMsgs, log, del, rtc>>

\* The position of game g in GameOrder, 0 for none.
OrderOf(g) == IF g = "none" THEN 0 ELSE CHOOSE k \in 1..Len(GameOrder) : GameOrder[k] = g

\* Step 3: the loop over the games goes to the next game that has updates
\* and calls processGame for it, or ends.
MainPick ==
    /\ rpc = "next"
    /\ LET Left == {k \in (OrderOf(gameType) + 1)..Len(GameOrder) :
                       Len(byGame[GameOrder[k]]) # 0}
           First == CHOOSE k \in Left : \A j \in Left : k <= j
       IN  IF Left = {}
           THEN /\ rpc' = "done"
                /\ UNCHANGED <<gameType, updates, cursor>>
           ELSE /\ rpc' = "load"
                /\ gameType' = GameOrder[First]
                /\ updates' = [i \in 1..Len(byGame[GameOrder[First]]) |->
                                  byGame[GameOrder[First]][i].data]
                /\ cursor' = 1
    /\ UNCHANGED <<parserVars, storageVars, sorted, deleted, inbox, byGame,
                   stateMsgs, log, del, rtc>>

\* 3a: the state of the game is loaded (stateMsg stays null when the fetch
\* throws); a decoded value without players ends the run at the log line.
MainLoad ==
    /\ rpc = "load"
    /\ \E fetched \in BOOLEAN :
          LET st == decodeState(IF fetched THEN stateMsgs[gameType]
                                ELSE [isText |-> FALSE, text |-> <<>>], NowT)
          IN  /\ state' = IF st.kind = "roster" THEN [kind |-> "roster"] ELSE st
              /\ players' = IF st.kind = "roster" THEN st.players ELSE <<>>
              /\ rpc' = IF st.kind = "roster" THEN "upsert" ELSE "crashed"
              /\ op' = [name |-> "decodeState", ret |-> st.kind]
    /\ log' = Append(log, [ev |-> "load", game |-> gameType, id |-> 0])
    /\ UNCHANGED <<parserVars, content, origin, saved, data, prev, gameType, sorted,
                   updates, cursor, deleted, inbox, byGame, stateMsgs, del, rtc>>

\* 3b: upsertPlayer(state.players, data); a throw skips the delete
MainUpsert ==
    /\ rpc = "upsert"
    /\ players' = upsertPlayer(players, updates[cursor], NowT).players
    /\ op' = [name |-> "upsertPlayer",
              ret |-> upsertPlayer(players, updates[cursor], NowT).ret]
    /\ data' = updates[cursor]
    /\ prev' = players
    /\ log' = Append(log, [ev |-> "upsert", game |-> gameType,
                           id |-> byGame[gameType][cursor].id])
    /\ rpc' = IF op'.ret = "throw" THEN AfterUpdate ELSE "delete"
    /\ cursor' = IF op'.ret = "throw" THEN cursor + 1 ELSE cursor
    /\ UNCHANGED <<parserVars, state, content, origin, saved, gameType, sorted,
                   updates, deleted, inbox, byGame, stateMsgs, del, rtc>>

\* 3b: const deleted = await deleteMessage(msg)
MainDelete ==
    /\ rpc = "delete"
    /\ \E gone \in BOOLEAN :
          /\ deleted' = IF gone THEN deleted \cup {byGame[gameType][cursor].id}
                        ELSE deleted
          /\ op' = [name |-> "deleteMessage", ret |-> IF gone THEN "true" ELSE "false"]
    /\ log' = Append(log, [ev |-> "delete", game |-> gameType,
                           id |-> byGame[gameType][cursor].id])
    /\ rpc' = AfterUpdate
    /\ cursor' = cursor + 1
    /\ UNCHANGED <<parserVars, players, state, content, origin, saved, data, prev,
                   gameType, sorted, updates, inbox, byGame, stateMsgs, del, rtc>>

\* 3c to 3e: sort, render, webhook message, state message; then the loop
\* over the games goes on.
MainFinish ==
    /\ rpc = "publish"
    /\ players' = sortFn(gameType, players).players
    /\ sorted' = sortFn(gameType, players).ret
    /\ stateMsgs' = [stateMsgs EXCEPT ![gameType] =
                        [isText |-> TRUE,
                         text |-> encodeState([kind |-> "string",
                                               str |-> <<gameType>>])]]
    /\ saved' = players
    /\ op' = [name |-> "save", ret |-> "written"]
    /\ log' = log \o <<[ev |-> "publish", game |-> gameType, id |-> 0],
                       [ev |-> "save", game |-> gameType, id |-> 0]>>
    /\ rpc' = "next"
    /\ UNCHANGED <<parserVars, state, content, origin, data, prev, gameType,
                   updates, cursor, deleted, inbox, byGame, del, rtc>>

MainNext ==
    MainFetch \/ MainParse \/ MainPick \/ MainLoad \/ MainUpsert \/ MainDelete
        \/ MainFinish

SpecMain == MainInit /\ [][MainNext]_vars

----------------------------------------------------------------------------
(* Properties of upsertPlayer, stated over the last call: prev is the      *)
(* roster before it, data the update, players the roster after it and      *)
(* op.ret what it returned.                                                *)

Upserted == op.name = "upsertPlayer"

SameName(a, b) == toLowerCase(a) = toLowerCase(b)

\* The records of ps that d names.
MatchOf(ps, d) == {i \in 1..Len(ps) : SameName(ps[i].playerName, d.playerName)}

\* The event time a record stores.
EventInstant(rec) == NewDate(rec.date).t

HasInstant(rec) == NewDate(rec.date).kind = "Date"

\* C1: an update that names a record of the roster and carries an event
\* time strictly earlier than the one the record stores is rejected:
\* upsertPlayer returns false and the roster is the one before the call.
C1_StaleRejected ==
    Upserted =>
        \A i \in MatchOf(prev, data) :
            (HasInstant(data) /\ HasInstant(prev[i])
                /\ EventInstant(data) < EventInstant(prev[i]))
            => (op.ret = "false" /\ players = prev)

\* A stale update met a roster of two records and was rejected.
C1_Witness ==
    /\ Upserted
    /\ Len(prev) = 2
    /\ \E i \in MatchOf(prev, data) :
          /\ HasInstant(data) /\ HasInstant(prev[i])
          /\ EventInstant(data) < EventInstant(prev[i])
    /\ op.ret = "false"
    /\ players = prev

\* C2: an update that names no record of the roster is inserted:
\* upsertPlayer returns true, the roster is one record longer and the new
\* record carries the update's playerName.
C2_InsertGrows ==
    (Upserted /\ MatchOf(prev, data) = {})
    => /\ op.ret = "true"
       /\ Len(players) = Len(prev) + 1
       /\ players[Len(players)].playerName = data.playerName

C4_UniqueNames ==
    \A i, j \in 1..Len(players) :
        i # j => ~SameName(players[i].playerName, players[j].playerName)

\* An update written TURBO met the record of Turbo in a roster of two and
\* took its place.
C4_Witness ==
    /\ Upserted
    /\ Len(players) = 2
    /\ data.playerName = <<"TURBO">>
    /\ \E i \in 1..Len(prev) :
          /\ prev[i].playerName = <<"Turbo">>
          /\ players[i].playerName = <<"TURBO">>

----------------------------------------------------------------------------
(* Properties of the codec, stated over the last decodeState: content is   *)
(* the text it read, origin where the text came from, saved the roster     *)
(* that was encoded into it.                                               *)

Decoded == op.name = "decodeState"

\* The same players in the same order, with the same fields, field values
\* and event instants.
SameRoster(ps, qs) ==
    /\ Len(ps) = Len(qs)
    /\ \A i \in 1..Len(ps) :
          /\ DOMAIN ps[i] = DOMAIN qs[i]
          /\ \A key \in DOMAIN ps[i] \ {"date"} : ps[i][key] = qs[i][key]
          /\ NewDate(ps[i].date) = NewDate(qs[i].date)

\* C5: decodeState of a text that was found, not written by encodeState
\* (no content, the empty text, a text without marker, without closing
\* delimiter or with a payload that is no roster), returns a roster, and
\* the roster is empty.
C5_DecodeTotal ==
    (Decoded /\ origin = "found") => (state.kind = "roster" /\ players = <<>>)

\* C6: decodeState of what encodeState wrote for a roster, alone or after
\* the display text, returns the roster: the same players in the same
\* order with the same field values and event instants.
C6_RoundTrip ==
    (Decoded /\ origin = "encodeState")
    => (state.kind = "roster" /\ SameRoster(players, saved))

\* C7: encodeState(G, roster) returns a text that starts with the marker
\* of G, LB_STATE:G:, and decodeState of that text returns the players of
\* the roster.
C7_MarkerPerGame ==
    /\ op.name = "encodeStateGame"
       => Head(content.text) = "LB_STATE:" \o op.ret \o ":"
    /\ (Decoded /\ origin = "encodeStateGame")
       => (state.kind = "roster" /\ SameRoster(players, saved))

----------------------------------------------------------------------------
(* Properties of the parser, stated over a finished run: msg is the        *)
(* message as its fields, parsed what parseMessage returned for its text.  *)

Parsed == ppc = "done"

Range(q) == {q[i] : i \in 1..Len(q)}

\* The game the prefix of a message selects.
FormGame(f) ==
    LET p == toLowerCase(f.prefix)
    IN  CASE p = <<"lb_update_mr:">> -> "MARVEL_RIVALS"
          [] p = <<"lb_update_ow:">> -> "OVERWATCH"
          [] p = <<"lb_update_dl:">> -> "DEADLOCK"
          [] OTHER -> "none"

\* A tier written as a number outside 1..hi.
TierOutside(a, hi) == IsNumeral(a) /\ (parseInt(a) < 1 \/ parseInt(a) > hi)

IsTop500(rank) == toLowerCase(rank) = toLowerCase(TOP500)

\* A message with a tier outside the bound of its game.
FormTierOut(f) ==
    CASE FormGame(f) = "MARVEL_RIVALS" ->
            TierOutside(f.cur.tier, 3) \/ TierOutside(f.peak.tier, 3)
      [] FormGame(f) = "OVERWATCH" ->
            \/ ~IsTop500(f.cur.rank) /\ TierOutside(f.cur.tier, 5)
            \/ ~IsTop500(f.peak.rank) /\ TierOutside(f.peak.tier, 5)
      [] FormGame(f) = "DEADLOCK" -> TierOutside(f.cur.tier, 6)
      [] OTHER -> FALSE

\* The tiers of an update are inside the bound of its game.
TiersInBound(u) ==
    CASE u.game = "MARVEL_RIVALS" -> u.tierCurrent \in 1..3 /\ u.tierPeak \in 1..3
      [] u.game = "OVERWATCH" ->
            /\ u.rankCurrent # TOP500 => u.tierCurrent \in 1..5
            /\ u.rankPeak # TOP500 => u.tierPeak \in 1..5
      [] u.game = "DEADLOCK" -> u.tierCurrent \in 1..6
      [] OTHER -> FALSE

\* C8: the tiers of every update parseMessage returns are inside the bound
\* of its game (1..3 Marvel Rivals, 1..5 Overwatch but for Top 500, 1..6
\* Deadlock), and a message with a tier outside its bound yields none.
C8_TierBounds ==
    Parsed => /\ parsed # Null => TiersInBound(parsed)
              /\ FormTierOut(msg) => parsed = Null

\* A Marvel Rivals message whose current tier is in bound and whose peak
\* tier is 4, in bound for the other games, was rejected.
C8_Witness ==
    /\ Parsed
    /\ FormGame(msg) = "MARVEL_RIVALS"
    /\ msg.cur.tier = "3"
    /\ msg.peak.tier = "4"
    /\ parsed = Null

\* The ranks of a game, in lower case.
Vocabulary(game) ==
    LET list == CASE game = "MARVEL_RIVALS" -> MR_RANKS
                  [] game = "OVERWATCH" -> OW_RANKS
                  [] OTHER -> DL_RANKS
    IN  {toLowerCase(list[i]) : i \in 1..Len(list)}

\* A rank group that is none of the grammar of the game: an unknown rank,
\* no tier, or a value where the game has none or none where it has one.
GroupMismatch(g, game) ==
    \/ toLowerCase(g.rank) \notin Vocabulary(game)
    \/ ~IsNumeral(g.tier)
    \/ (game = "MARVEL_RIVALS") # (g.value = "")

\* A message that is empty, no text, without a recognised prefix, or with a
\* field of the grammar of its game missing or spoilt.
Ungrammatical(f) ==
    \/ ~f.isText
    \/ Content(f).text = <<>>
    \/ FormGame(f) = "none"
    \/ Len(f.name) < 2 \/ Head(f.name) # "@"
    \/ f.role = <<>>
    \/ f.date = <<>>
    \/ GroupMismatch(f.cur, FormGame(f))
    \/ FormGame(f) # "DEADLOCK" /\ GroupMismatch(f.peak, FormGame(f))

\* C9: parseMessage returns none for a message that is empty, no text,
\* without a recognised prefix or outside the grammar of the game its
\* prefix selects; the prefix is recognised in any letter case, and the
\* game of a returned update is the game of the prefix.
C9_RejectsOrGame ==
    Parsed => /\ Ungrammatical(msg) => parsed = Null
              /\ parsed # Null => parsed.game = FormGame(msg)
              /\ (msg \in PrefixForms /\ FormGame(msg) # "none"
                    /\ ~Ungrammatical(msg)) => parsed # Null

\* A message with its prefix in mixed case was accepted for the game of
\* the prefix.
C9_Witness ==
    /\ Parsed
    /\ msg.prefix = <<"Lb_Update_Mr:">>
    /\ parsed # Null
    /\ parsed.game = "MARVEL_RIVALS"

\* C10: a message whose player name has two or more words, followed by a
\* one-word role or hero and a valid remainder, yields an update with the
\* whole name as playerName and the word after it as role or hero.
C10_MultiWordName ==
    (Parsed /\ msg \in NameForms /\ SP \in Range(msg.name))
    => /\ parsed # Null
       /\ parsed.playerName = Tail(msg.name)
       /\ (IF parsed.game = "DEADLOCK" THEN parsed.hero ELSE parsed.role) = msg.role

\* The vocabulary of a game in the order of the source.
RankList(game) ==
    CASE game = "MARVEL_RIVALS" -> MR_RANKS
      [] game = "OVERWATCH" -> OW_RANKS
      [] OTHER -> DL_RANKS

\* The rank of the vocabulary of game that r spells, letter case ignored.
Canonical(game, r) ==
    CHOOSE c \in Range(RankList(game)) : toLowerCase(c) = toLowerCase(r)

\* The ranks a message of game uses are of its vocabulary.
RanksKnown(f) ==
    /\ toLowerCase(f.cur.rank) \in Vocabulary(FormGame(f))
    /\ FormGame(f) # "DEADLOCK" => toLowerCase(f.peak.rank) \in Vocabulary(FormGame(f))

\* C11: a well-formed message whose ranks are names of its game's
\* vocabulary, in any letter case, is accepted and the ranks returned are
\* the vocabulary's spellings; a rank of no or of another game's vocabulary
\* makes the message yield none; every rank returned is a vocabulary entry.
C11_RankRecognition ==
    Parsed =>
        /\ (msg \in RankForms /\ RanksKnown(msg)) =>
              /\ parsed # Null
              /\ parsed.rankCurrent = Canonical(FormGame(msg), msg.cur.rank)
              /\ FormGame(msg) # "DEADLOCK" =>
                    parsed.rankPeak = Canonical(FormGame(msg), msg.peak.rank)
        /\ (msg \in RankForms /\ ~RanksKnown(msg)) => parsed = Null
        /\ parsed # Null =>
              /\ parsed.rankCurrent \in Range(RankList(parsed.game))
              /\ parsed.game # "DEADLOCK" =>
                    parsed.rankPeak \in Range(RankList(parsed.game))

\* A message with the multi-word top rank in lower case was accepted with
\* the rank in the vocabulary's spelling.
C11_Witness ==
    /\ Parsed
    /\ msg \in RankForms
    /\ msg.cur.rank = <<"one", SP, "above", SP, "all">>
    /\ parsed # Null
    /\ parsed.rankCurrent = <<"One", SP, "Above", SP, "All">>

\* No leading or trailing whitespace and none of < > " ' ; ( ).
Sanitised(s) ==
    /\ Range(s) \cap StripChars = {}
    /\ s # <<>> => (~IsSpace(s[1]) /\ ~IsSpace(s[Len(s)]))

\* C12: in every update parseMessage returns, playerName and role or hero
\* hold none of the characters < > " ' ; ( ) and neither starts nor ends
\* with whitespace.
C12_Sanitised ==
    (Parsed /\ parsed # Null) =>
        /\ Sanitised(parsed.playerName)
        /\ Sanitised(IF parsed.game = "DEADLOCK" THEN parsed.hero ELSE parsed.role)

\* A name written in angle brackets and a role in parentheses were
\* returned without them.
C12_Witness ==
    /\ Parsed
    /\ msg.name = <<"@", "<", "Turbo", ">">>
    /\ msg.role = <<"(", "Duelist", ")">>
    /\ parsed # Null
    /\ parsed.playerName = <<"Turbo">>
    /\ parsed.game # "DEADLOCK"
    /\ parsed.role = <<"Duelist">>

----------------------------------------------------------------------------
(* Properties of the sort functions, stated over the last call: prev is    *)
(* the roster handed in, players the same array after the call and sorted  *)
(* the array returned.                                                     *)

Sorted == op.name = "sortFn"

\* The place of rank r in a vocabulary.
Position(list, r) == CHOOSE i \in 1..Len(list) : list[i] = r

\* x before or equal to y in the order of the first place where they differ.
LexLeq(x, y) ==
    \/ x = y
    \/ \E n \in 1..Len(x) : x[n] < y[n] /\ \A m \in 1..(n - 1) : x[m] = y[m]

\* The keys of the three orders, each written so that the smaller sorts
\* first.
MRKeys(p) ==
    <<0 - Position(MR_RANKS, p.rankCurrent), p.tierCurrent,
      0 - Position(MR_RANKS, p.rankPeak), p.tierPeak, 0 - EventInstant(p)>>

OWKeys(p) ==
    <<0 - Position(OW_RANKS, p.rankCurrent), p.tierCurrent,
      0 - Position(OW_RANKS, p.rankPeak), p.tierPeak, 0 - EventInstant(p)>>

DLKeys(p) ==
    <<0 - Position(DL_RANKS, p.rankCurrent), 0 - p.tierCurrent, p.currentValue,
      0 - EventInstant(p)>>

KeysOf(p) ==
    CASE p.game = "MARVEL_RIVALS" -> MRKeys(p)
      [] p.game = "OVERWATCH" -> OWKeys(p)
      [] OTHER -> DLKeys(p)

\* Every record of sorted is before or equal to every record behind it.
SortedByKeys ==
    \A i, j \in 1..Len(sorted) : i < j => LexLeq(KeysOf(sorted[i]), KeysOf(sorted[j]))

\* The records of rank r stand before every record of another rank.
RankFirst(r) ==
    \A i, j \in 1..Len(sorted) :
        (sorted[i].rankCurrent = r /\ sorted[j].rankCurrent # r) => i < j

\* C13: sortMarvelRivals returns the records in the order of current rank
\* (best first), then current tier (lowest first), then peak rank (best
\* first), then peak tier (lowest first), then event time (latest first),
\* the first key that differs deciding; One Above All precedes every other
\* rank.
C13_SortMarvelRivals ==
    (Sorted /\ gameType = "MARVEL_RIVALS")
    => (SortedByKeys /\ RankFirst(<<"One", SP, "Above", SP, "All">>))

\* Three records came back in another order than they went in, an Eternity
\* record behind a One Above All record and two records apart by their
\* event time alone.
C13_Witness ==
    /\ Sorted /\ gameType = "MARVEL_RIVALS"
    /\ Len(sorted) = 3
    /\ sorted # prev
    /\ prev[1].rankCurrent = <<"Eternity">>
    /\ sorted[3] = prev[1]
    /\ sorted[1].rankCurrent = <<"One", SP, "Above", SP, "All">>
    /\ \A n \in 1..4 : MRKeys(sorted[1])[n] = MRKeys(sorted[2])[n]
    /\ EventInstant(sorted[1]) > EventInstant(sorted[2])

\* C14: sortOverwatch returns the records in the order of current rank
\* (best first), then current tier (lowest first; the placement for Top
\* 500), then peak rank, then peak tier, then event time (latest first);
\* Top 500 records precede every other rank.
C14_SortOverwatch ==
    (Sorted /\ gameType = "OVERWATCH") => (SortedByKeys /\ RankFirst(TOP500))

\* Placement 200 went in before placement 50 and came back behind it, both
\* before a Champion record.
C14_Witness ==
    /\ Sorted /\ gameType = "OVERWATCH"
    /\ Len(sorted) = 3
    /\ prev[1].rankCurrent = TOP500 /\ prev[1].tierCurrent = 200
    /\ prev[2].rankCurrent = <<"Champion">>
    /\ prev[3].rankCurrent = TOP500 /\ prev[3].tierCurrent = 50
    /\ sorted = <<prev[3], prev[1], prev[2]>>

\* C15: sortDeadlock returns the records in the order of current rank
\* (best first), then current tier (highest first), then value (lowest
\* first), then event time (latest first).
C15_SortDeadlock ==
    (Sorted /\ gameType = "DEADLOCK") => SortedByKeys

\* Of two records of one rank the one of tier 6 came back before the one
\* of tier 4 with the lower value, and a record of their tier 4 with the
\* higher value behind both.
C15_Witness ==
    /\ Sorted /\ gameType = "DEADLOCK"
    /\ Len(sorted) = 3
    /\ \A i \in 1..3 : prev[i].rankCurrent = <<"Eternus">>
    /\ prev[1].tierCurrent = 4 /\ prev[1].currentValue = 1200
    /\ prev[2].tierCurrent = 4 /\ prev[2].currentValue = 900
    /\ prev[3].tierCurrent = 6 /\ prev[3].currentValue = 1200
    /\ sorted = <<prev[3], prev[2], prev[1]>>

Sign(x) == IF x < 0 THEN 0 - 1 ELSE IF x > 0 THEN 1 ELSE 0

\* The sign of cmp(ps[i], ps[j]) for every two places i, j of roster ps,
\* as the set of <<i, j, sign>>.
Signs(g, ps) ==
    {<<p[1], p[2], Sign(Compare(g, ps[p[1]], ps[p[2]]))>> :
        p \in (1..Len(ps)) \X (1..Len(ps))}

\* cmp <= 0 at places i, j
NotAfter(signs, i, j) == <<i, j, 1>> \notin signs

\* C16: over the records of a roster the comparator of the game is total
\* and transitive: cmp(a, b) and cmp(b, a) have opposite signs or are both
\* zero, and cmp(a, b) <= 0 and cmp(b, c) <= 0 give cmp(a, c) <= 0; every
\* two neighbours of the sorted output are in comparator order.
C16_TotalOrder ==
    Sorted =>
        LET signs == Signs(gameType, prev)
            after == Signs(gameType, sorted)
        IN  /\ \A i, j \in 1..Len(prev) :
                  \E x \in {0 - 1, 0, 1} :
                      <<i, j, x>> \in signs /\ <<j, i, 0 - x>> \in signs
            /\ \A i, j, k \in 1..Len(prev) :
                  (NotAfter(signs, i, j) /\ NotAfter(signs, j, k))
                  => NotAfter(signs, i, k)
            /\ \A i \in 1..(Len(sorted) - 1) : NotAfter(after, i, i + 1)

\* Three records strictly apart, handed in out of order, came back in
\* comparator order.
C16_Witness ==
    /\ Sorted
    /\ Len(prev) = 3
    /\ Compare(gameType, prev[3], prev[1]) < 0
    /\ Compare(gameType, prev[1], prev[2]) < 0
    /\ Compare(gameType, prev[2], prev[3]) > 0
    /\ sorted = <<prev[3], prev[1], prev[2]>>

\* The place of record rec in sorted.
PlaceOf(rec) == CHOOSE i \in 1..Len(sorted) : sorted[i] = rec

\* C17: a sort function leaves the roster handed in as it was, returns the
\* same records, each once, and keeps records that tie on every key in
\* the order they were handed in.
C17_PureStable ==
    Sorted =>
        /\ players = prev
        /\ Len(sorted) = Len(prev)
        /\ \A i \in 1..Len(prev) :
              Cardinality({j \in 1..Len(sorted) : sorted[j] = prev[i]}) = 1
        /\ \A i, j \in 1..Len(prev) :
              (i < j /\ KeysOf(prev[i]) = KeysOf(prev[j]))
              => PlaceOf(prev[i]) < PlaceOf(prev[j])

\* Two records that tie, with a better one handed in between them, came
\* back behind it in their order, and the roster handed in was not moved.
C17_Witness ==
    /\ Sorted
    /\ Len(prev) = 3
    /\ KeysOf(prev[1]) = KeysOf(prev[3])
    /\ sorted = <<prev[2], prev[1], prev[3]>>
    /\ players = prev

----------------------------------------------------------------------------
(* Properties of the stored record *)

\* C18: a record upsertPlayer stores has the fields of the update but for
\* the raw date text: no record of the roster has a dateRaw field, and no
\* text encodeState writes for the roster names one.
C18_NoRawDate ==
    /\ Upserted =>
          \A i \in 1..Len(players) : "dateRaw" \notin DOMAIN players[i]
    /\ op.name = "encodeState" => "dateRaw" \notin Range(content.text)

----------------------------------------------------------------------------
(* Properties of a run of processGame.                                     *)

\* The roster the state message holds: what decodeState makes of its
\* content, no player when that is no roster.
Persisted ==
    LET Players(st) == IF st.kind = "roster" THEN st.players ELSE <<>>
    IN  Players(decodeState(content, NowT))

\* Update u is accounted for in roster ps: ps has a record of its player
\* that is not older than the update.
Accounted(u, ps) ==
    \E j \in MatchOf(ps, u) :
        ~ (HasInstant(u) /\ HasInstant(ps[j])
              /\ EventInstant(ps[j]) < EventInstant(u))

\* C19: the text a run hands to the write of the state message decodes,
\* with decodeState, to the roster the run holds: the roster it loaded with
\* its updates upserted.
C19_Repersisted ==
    op.name = "save" =>
        LET Same(st) == st.kind = "roster" /\ SameRoster(st.players, players)
        IN  Same(decodeState([isText |-> TRUE, text |-> op.text], NowT))

\* C20: in every state of a run a source message is deleted only if its
\* update is accounted for in the roster the state message holds.
C20_NoLostUpdate ==
    \A i \in deleted : Accounted(updates[i], Persisted)

----------------------------------------------------------------------------
(* Properties of the documented message formats.                           *)

\* The number a tier of the README's examples is written for.
ReadmeTier(a) ==
    CASE a = "1" -> 1 [] a = "2" -> 2 [] a = "3" -> 3 [] a = "4" -> 4
      [] a = "6" -> 6 [] a = "12" -> 12 [] a = "47" -> 47

\* The update holds the game, player, role or hero, ranks and tiers that
\* message f is written with.
AsWritten(u, f) ==
    /\ u # Null
    /\ u.game = FormGame(f)
    /\ u.playerName = Tail(f.name)
    /\ (IF u.game = "DEADLOCK" THEN u.hero ELSE u.role) = f.role
    /\ u.rankCurrent = f.cur.rank
    /\ u.tierCurrent = ReadmeTier(f.cur.tier)
    /\ u.game # "DEADLOCK" =>
          (u.rankPeak = f.peak.rank /\ u.tierPeak = ReadmeTier(f.peak.tier))

\* C21: every example message of the README's message-format section is
\* accepted by parseMessage and yields an update of its game with the
\* player, role or hero, ranks and tiers written in the example.
C21_ReadmeExamples ==
    (Parsed /\ msg \in ReadmeForms) => AsWritten(parsed, msg)

\* Update u is complete for its game.
Complete(u) ==
    /\ u.playerName # <<>>
    /\ (IF u.game = "DEADLOCK" THEN u.hero ELSE u.role) # <<>>
    /\ u.rankCurrent \in Range(RankList(u.game))
    /\ u.tierCurrent \in Nat
    /\ u.game # "MARVEL_RIVALS" => u.currentValue \in Nat
    /\ u.game # "DEADLOCK" =>
          /\ {"rankPeak", "tierPeak"} \subseteq DOMAIN u
          /\ u.rankPeak \in Range(RankList(u.game))
          /\ u.tierPeak \in Nat
    /\ u.game = "DEADLOCK" =>
          DOMAIN u \cap {"rankPeak", "tierPeak", "peakValue"} = {}
    /\ u.date.kind = "Date"

\* C22: every update parseMessage returns is complete for its game: the
\* player name and the role or hero are not empty, the ranks are of the
\* game's vocabulary, tier and value are numbers, the peak is there for
\* Marvel Rivals and Overwatch and not for Deadlock, and the event time is
\* a valid instant.
C22_NoPartialRecord ==
    (Parsed /\ parsed # Null) => Complete(parsed)

----------------------------------------------------------------------------
(* Properties of batches and repeated runs.                                *)

\* The first run has upserted its whole batch.
FirstPassDone == rpc = "first" /\ cursor > Len(updates)

\* The updates of the batch that name the player of u and carry an event
\* time.
Rivals(u) ==
    {i \in 1..Len(updates) :
        SameName(updates[i].playerName, u.playerName) /\ HasInstant(updates[i])}

\* The greatest event time of the updates at positions I.
Greatest(I) ==
    CHOOSE t \in {EventInstant(updates[i]) : i \in I} :
        \A i \in I : EventInstant(updates[i]) <= t

\* The last position of I whose update carries event time t.
LastAt(I, t) ==
    CHOOSE i \in I :
        /\ EventInstant(updates[i]) = t
        /\ \A j \in I : EventInstant(updates[j]) = t => j <= i

\* The record last-write-wins by event time leaves for the player of u:
\* the record of the starting roster when it is strictly newer than every
\* update of the player, else the record of the update with the greatest
\* event time, the last arrived of them when several carry it.
Winner(u, start) ==
    LET Top == Greatest(Rivals(u))
        Newer == {j \in MatchOf(start, u) :
                     HasInstant(start[j]) /\ EventInstant(start[j]) > Top}
    IN  IF Newer # {} THEN start[CHOOSE j \in Newer : TRUE]
        ELSE serialisePlayer(updates[LastAt(Rivals(u), Top)], NowT).player

SecondPassDone == rpc = "second" /\ cursor > Len(updates)

\* Upserting the update of the last call once more changes nothing.
UpsertIdempotent ==
    Upserted => upsertPlayer(players, data, NowT).players = players

\* C24: a batch upserted into a roster, the roster passed through
\* encodeState and decodeState and the same batch upserted again leaves the
\* roster of the first pass; an update upserted twice leaves the roster of
\* upserting it once.
C24_RerunConverges ==
    /\ SecondPassDone => SameRoster(players, saved)
    /\ UpsertIdempotent

\* Every player of roster ps is in roster qs, with an event time that is
\* not earlier.
NotEarlier(ps, qs) ==
    \A i \in 1..Len(ps) :
        "playerName" \in DOMAIN ps[i] =>
            \E j \in 1..Len(qs) :
                /\ "playerName" \in DOMAIN qs[j]
                /\ SameName(ps[i].playerName, qs[j].playerName)
                /\ HasInstant(ps[i]) =>
                      (HasInstant(qs[j]) /\ EventInstant(qs[j]) >= EventInstant(ps[i]))

\* A step of upsertPlayer.
UpsertStep == op'.name = "upsertPlayer"

\* A step of decodeState on the text encodeState made of the roster held.
CycleStep ==
    /\ op'.name = "decodeState"
    /\ origin = "encodeState"
    /\ saved = players

\* C25: across upsertPlayer calls and encode/decode cycles between them no
\* player leaves the roster and no player's stored event time decreases.
C25_Monotone ==
    [][(UpsertStep \/ CycleStep) => NotEarlier(players, players')]_vars

\* The part of C25 that is about upsertPlayer alone.
UpsertMonotone ==
    [][UpsertStep => NotEarlier(players, players')]_vars

----------------------------------------------------------------------------
(* Properties of the Overwatch top bracket.                                *)

\* The tier of a rank group is written within 1..5.
TierWritten1to5(g) == g.tier \in {"1", "2", "3", "4", "5"}

\* The tier rule of Overwatch for one rank group: any number with Top 500,
\* 1..5 with another rank.
TierAdmitted(g) == IsTop500(g.rank) \/ TierWritten1to5(g)

----------------------------------------------------------------------------
(* Properties of deleteMessage.                                            *)

\* deleteMessage has returned.
DeleteDone == del.pc = "done"

\* Some attempt succeeded or found the message already deleted.
SomeAttemptDeleted == \E i \in 1..Len(del.errs) : del.errs[i] \in {"ok", "10008"}

\* C29: deleteMessage makes at most retries delete attempts, a
\* rate-limited one counting as one; it returns true exactly when some
\* attempt succeeded or reported the message as already deleted, false
\* when every attempt failed; and it always returns.
C29_DeleteTerminates ==
    /\ [](/\ Len(del.errs) <= del.retries
          /\ del.pc = "loop" => del.attempt = Len(del.errs) + 1
          /\ DeleteDone => (del.ret = "true" <=> SomeAttemptDeleted)
          /\ DeleteDone => (del.ret = "false" <=> ~SomeAttemptDeleted))
    /\ <>DeleteDone

\* With three retries a rate-limited and a failed attempt were followed by
\* one that found the message gone: true after three attempts.
C29_Witness ==
    /\ DeleteDone
    /\ del.retries = 3
    /\ del.errs = <<"429", "other", "10008">>
    /\ del.ret = "true"

----------------------------------------------------------------------------
(* Properties of relativeTime.                                             *)

\* The count and unit the unit selection names for s elapsed seconds, with
\* days of DaySeconds, weeks of 7, months of 30 and years of 365 days.
UnitOf(s) ==
    LET day == s \div DaySeconds
    IN  IF s < 60 THEN [n |-> s, unit |-> "second"]
        ELSE IF s < 3600 THEN [n |-> s \div 60, unit |-> "minute"]
        ELSE IF day < 1 THEN [n |-> s \div 3600, unit |-> "hour"]
        ELSE IF day < 7 THEN [n |-> day, unit |-> "day"]
        ELSE IF day \div 7 < 5 THEN [n |-> day \div 7, unit |-> "week"]
        ELSE IF day \div 30 < 12 THEN [n |-> day \div 30, unit |-> "month"]
        ELSE [n |-> day \div 365, unit |-> "year"]

\* '<n> <unit>(s) ago' with n >= 1 and the singular exactly when n = 1.
Phrase(u) ==
    IF u.n = 1 THEN <<"1", SP, u.unit, SP, "ago">>
    ELSE <<ToString(u.n), SP, u.unit \o "s", SP, "ago">>

\* C30: relativeTime returns 'just now' for a future instant and for fewer
\* than 10 elapsed seconds, and otherwise '<n> <unit>(s) ago' with n >= 1,
\* the unit selected by the thresholds and singular exactly when n = 1.
C30_RelativeTime ==
    rtc.pc = "done" =>
        IF rtc.s < 10 THEN rtc.text = <<"just", SP, "now">>
        ELSE /\ UnitOf(rtc.s).n >= 1
             /\ rtc.text = Phrase(UnitOf(rtc.s))

----------------------------------------------------------------------------
(* Properties of a run of main.                                            *)

\* The message of the channel with identifier id.
MsgOf(id) == CHOOSE m \in Range(inbox) : m.id = id

\* The positions of the log with an event ev.
Events(ev) == {i \in 1..Len(log) : log[i].ev = ev}

\* What parseMessage makes of message m.
UpdateOf(m) == parseMessage(Content(m.form), NowT)

\* The messages of the channel that fail to parse: those written with a
\* tier out of bound.
Rejected(m) == FormTierOut(m.form)

\* C27: the updates of a game are upserted in ascending order of the
\* creation time of their messages, whatever event times they carry, and
\* a message is handed to deleteMessage only after its update was
\* upserted.
C27_ArrivalOrder ==
    /\ \A i \in Events("upsert"), j \in Events("upsert") :
          (i < j /\ log[i].game = log[j].game) =>
              MsgOf(log[i].id).createdTimestamp < MsgOf(log[j].id).createdTimestamp
    /\ \A j \in Events("delete") :
          \E i \in Events("upsert") : i < j /\ log[i].id = log[j].id
    /\ \A id \in deleted : \E i \in Events("upsert") : log[i].id = id

\* Fetched newest first, two updates of one game were upserted oldest
\* first although the later one carries the earlier event time; it was
\* rejected as stale and its message deleted after that.
C27_Witness ==
    /\ rpc = "done"
    /\ Len(inbox) = 3
    /\ \E i \in Events("upsert"), j \in Events("upsert"), k \in Events("delete") :
          /\ i < j /\ j < k
          /\ log[i].game = log[j].game
          /\ log[k].id = log[j].id
          /\ log[j].id < log[i].id
          /\ MsgOf(log[i].id).createdTimestamp < MsgOf(log[j].id).createdTimestamp
          /\ EventInstant(UpdateOf(MsgOf(log[j].id)))
                < EventInstant(UpdateOf(MsgOf(log[i].id)))
          /\ log[j].id \in deleted

\* C28: an update is upserted only into the roster of the game of its
\* message's prefix; a message that fails to parse is neither upserted
\* nor deleted; and a game without a parsed update is neither loaded,
\* published nor saved.
C28_GameIsolation ==
    /\ \A i \in Events("upsert") :
          FormGame(MsgOf(log[i].id).form) = log[i].game
    /\ rpc \in {"upsert", "delete", "publish"} =>
          \A k \in 1..Len(players) : players[k].game = gameType
    /\ \A m \in Range(inbox) :
          Rejected(m) =>
              /\ m.id \notin deleted
              /\ \A i \in Events("upsert") \cup Events("delete") : log[i].id # m.id
    /\ \A i \in Events("load") \cup Events("publish") \cup Events("save") :
          \E m \in Range(inbox) :
              ~Rejected(m) /\ FormGame(m.form) = log[i].game

\* A run over a Marvel Rivals update, an Overwatch update and a message
\* that failed to parse ended: both updates are in the log under their
\* games and their messages deleted, the third message is untouched and
\* nothing was done for Deadlock.
C28_Witness ==
    /\ rpc = "done"
    /\ Len(inbox) = 3
    /\ {FormGame(MsgOf(log[i].id).form) : i \in Events("upsert")}
          = {"MARVEL_RIVALS", "OVERWATCH"}
    /\ \E m \in Range(inbox) :
          Rejected(m) /\ UpdateOf(m) = Null /\ m.id \notin deleted
    /\ Cardinality(deleted) = 2
    /\ \A i \in 1..Len(log) : log[i].game # "DEADLOCK"

====
